---- MODULE Spec2Model ----
(***************************************************************************)
(* Model of the All-in-One dashboard synchronisation engine                *)
(* (SalesOpsNinjaTT/allinonemvp).                                          *)
(*                                                                         *)
(* Stores are Google Sheets tabs.  A sheet is modelled as a grid:          *)
(*   hdr   the cells of row 1 (its length is getLastColumn()),             *)
(*   rows  the rows 2..getLastRow(), each with cell values `vals' and     *)
(*         cell colours `colors' (a colour stands for the pair            *)
(*         background / font colour, which the code always moves          *)
(*         together).                                                      *)
(* JavaScript column index i (0-based) is position i+1 here.               *)
(* The 13 trailing call-quality score columns of both layouts are left     *)
(* out: they are record-derived fields to the right of every column the    *)
(* code addresses by a literal index.                                      *)
(***************************************************************************)
EXTENDS Integers, Sequences, FiniteSets, TLC

VARIABLES
  remote,     \* the CRM: deal id -> [owner, name, why]
  entity,     \* owner -> sheet: that owner's Pipeline Review tab (EntityStore)
  agg,        \* the director's consolidated pipeline tab (AggregateStore)
  hub,        \* the legacy Director Hub tab
  lock,       \* holder of the script lock, or NoHolder
  pc,         \* process -> position in its invocation
  op,         \* process -> operation being invoked
  idx,        \* process -> loop position of the full cycle (owner index)
  clean,      \* the full cycle in progress met no failure and no outside change
  snap,       \* store contents at the end of the last full cycle, or NoSnap
  last,       \* what the most recent step did (history, for the properties)
  gone,       \* <<owner, id>> of rows a refresh dropped while they carried notes
  envCount,   \* number of human / remote changes so far
  invCount    \* number of invocations started so far

vars == <<remote, entity, agg, hub, lock, pc, op, idx, clean, snap, last,
          gone, envCount, invCount>>

-----------------------------------------------------------------------------
(* Bounds of the model *)

MaxEnv == 2          \* human edits and remote changes explored
MaxInv == 2          \* invocations of operations explored

Procs == {"p1", "p2"}
NoHolder == "none"

(* Directory: two account executives of one team with one director. *)
OwnerSeq == <<"ae1", "ae2">>
Owners == {"ae1", "ae2"}
TeamOf == [o \in Owners |-> "Sales"]
DirectorTeam == "Sales"

DealOrder == <<"101", "102">>
Deals == {"101", "102"}
NoOwner == "nobody"
DealNames == {"Acme"}
NoteTexts == {"", "call back"}

White == "w"        \* '#ffffff' background with '#000000' font
Yellow == "y"       \* any highlight a human applied

-----------------------------------------------------------------------------
(* Layout definitions *)

\* PIPELINE_FIELDS headers (entity layout), without the score columns
EntityHeaders ==
  <<"Deal ID", "Deal Name", "Stage", "Last Activity", "Next Activity",
    "Notes", "Why Not Purchase Today">>

\* headers of buildConsolidatedPipelineDataArray (aggregate layout)
DirectorHeaders ==
  <<"Deal ID", "Deal Name", "Owner", "Stage", "Last Activity",
    "Next Activity", "Notes", "Why Not Purchase Today">>

\* Array.prototype.indexOf on a header row, as a 1-based position; 0 = absent
IndexOf(s, x) ==
  IF \E i \in 1..Len(s) : s[i] = x
  THEN CHOOSE i \in 1..Len(s) : s[i] = x /\ \A j \in 1..(i-1) : s[j] # x
  ELSE 0

\* PIPELINE_FIELDS.findIndex(f => f.property === '__notes__'), 1-based
notesFieldIndex == IndexOf(EntityHeaders, "Notes")

-----------------------------------------------------------------------------
(* Sheet helpers *)

LastColumn(sheet) == Len(sheet.hdr)
LastRow(sheet) == 1 + Len(sheet.rows)

\* a cell value of a data row; cells right of the last column read as ''
Cell(row, c) == IF c <= Len(row.vals) THEN row.vals[c] ELSE ""

Fill(n, x) == [i \in 1..n |-> x]

\* Array.prototype.slice(0, n)
Take(s, n) == SubSeq(s, 1, IF n < Len(s) THEN n ELSE Len(s))

\* pad with x up to n cells
PadTo(s, n, x) == IF Len(s) >= n THEN s ELSE s \o Fill(n - Len(s), x)

\* Array.prototype.splice(i, 1) with i given 1-based
SpliceOut(s, i) ==
  IF i > Len(s) THEN s ELSE SubSeq(s, 1, i - 1) \o SubSeq(s, i + 1, Len(s))

SetAt(s, i, x) == [s EXCEPT ![i] = x]

\* the Record IDs found in column A of a sheet's data rows
RowIds(sheet) == {Cell(sheet.rows[i], 1) : i \in 1..Len(sheet.rows)} \ {""}

\* index of the last data row whose column A holds id (Map.set overwrites)
LastRowOf(sheet, id) ==
  CHOOSE i \in 1..Len(sheet.rows) :
    /\ Cell(sheet.rows[i], 1) = id
    /\ \A j \in (i+1)..Len(sheet.rows) : Cell(sheet.rows[j], 1) # id

\* the tab as initializeIndividualSheet leaves it: A1 only
FreshTab == [hdr |-> <<"Pipeline Review - Will be populated by script">>,
             rows |-> <<>>]

\* the "no active deals" message of updatePipelineReview: A1, A3..A6
PlaceholderRows ==
  <<[vals |-> <<"">>, colors |-> <<White>>],
    [vals |-> <<"No active deals found matching filters:">>, colors |-> <<White>>],
    [vals |-> <<"Stages: Negotiation, Partnership Proposal">>, colors |-> <<White>>],
    [vals |-> <<"Created in last 90 days">>, colors |-> <<White>>],
    [vals |-> <<"Not Closed Lost">>, colors |-> <<White>>]>>

Placeholder == [hdr |-> <<"Pipeline Review">>, rows |-> PlaceholderRows]

EmptyDirectorTab == [hdr |-> <<>>, rows |-> <<>>]

-----------------------------------------------------------------------------
(* The CRM side *)

\* STAGE_MAP[stageId] || stageId
STAGE_MAP(stageId) ==
  CASE stageId = "90284260" -> "Partnership Proposal"
    [] stageId = "90284261" -> "Negotiation"
    [] OTHER -> stageId

\* formatDate: '' stays '', a timestamp becomes yyyy-MM-dd
formatDate(dateValue) ==
  CASE dateValue = "" -> ""
    [] dateValue = "2025-03-01T09:30:00Z" -> "2025-03-01"
    [] dateValue = "2025-03-05T16:00:00Z" -> "2025-03-05"
    [] OTHER -> ""

\* the deal object the search API returns for deal d
DealOf(d) ==
  [id |-> d,
   dealname |-> remote[d].name,
   dealstage |-> "90284261",
   notes_last_updated |-> "2025-03-01T09:30:00Z",
   notes_next_activity_date |-> IF d = "101" THEN "2025-03-05T16:00:00Z" ELSE "",
   why_not_purchase_today_ |-> remote[d].why]

\* fetchDealsForAE: the owner's deals in the order the API lists them;
\* a non-200 response is caught inside and an empty list is returned
fetchDealsForAE(o, responseOk) ==
  IF responseOk
  THEN SelectSeq(DealOrder, LAMBDA d : remote[d].owner = o)
  ELSE <<>>

SeqToSet(s) == {s[i] : i \in 1..Len(s)}

-----------------------------------------------------------------------------
(* Entity store: updatePipelineReview and its helpers *)

\* a capture that reads the notes one column to the right
capturePreservedDataMut(sheet) ==
  IF LastRow(sheet) < 2 THEN [id \in {} |-> [notes |-> "", colors |-> <<>>]]
  ELSE [id \in RowIds(sheet) |->
          LET row == sheet.rows[LastRowOf(sheet, id)]
          IN [notes |-> Cell(row, notesFieldIndex + 1),
              colors |-> row.colors]]

\* capturePreservedData: Map of Deal ID -> {notes, backgrounds, fontColors}
\* over the rows 2..lastRow whose column A is not empty
capturePreservedData(sheet) ==
  IF LastRow(sheet) < 2 THEN [id \in {} |-> [notes |-> "", colors |-> <<>>]]
  ELSE [id \in RowIds(sheet) |->
          LET row == sheet.rows[LastRowOf(sheet, id)]
          IN [notes |-> IF notesFieldIndex >= 1
                        THEN Cell(row, notesFieldIndex) ELSE "",
              colors |-> row.colors]]

\* the notes buildPipelineDataArray puts into the row of dealId:
\* (preservedMap.get(dealId) || {}).notes || ''
PreservedNotes(preservedMap, dealId) ==
  IF dealId \in DOMAIN preservedMap THEN preservedMap[dealId].notes ELSE ""

\* buildPipelineDataArray: one row per fetched deal in PIPELINE_FIELDS order
PipelineRow(d, preservedMap) ==
  LET deal == DealOf(d)
  IN <<deal.id,
       deal.dealname,
       STAGE_MAP(deal.dealstage),
       formatDate(deal.notes_last_updated),
       formatDate(deal.notes_next_activity_date),
       PreservedNotes(preservedMap, deal.id),
       deal.why_not_purchase_today_>>

buildPipelineDataArray(deals, preservedMap) ==
  [i \in 1..Len(deals) |-> PipelineRow(deals[i], preservedMap)]

\* clearSheetData then writeDataToSheet then applyPipelineFormatting:
\* rows 2.. are cleared (content and format), row 1 is overwritten in the
\* columns of the layout only, the data rows are written with default
\* colours (applyPreservedHighlighting is commented out in
\* applyPipelineFormatting).
writeDataToSheet(sheet, dataRows) ==
  LET n == Len(EntityHeaders)
      hdr == EntityHeaders \o SubSeq(sheet.hdr, n + 1, Len(sheet.hdr))
  IN [hdr |-> hdr,
      rows |-> [i \in 1..Len(dataRows) |->
                  [vals |-> PadTo(dataRows[i], Len(hdr), ""),
                   colors |-> Fill(Len(hdr), White)]]]

\* a refresh that leaves the tab alone when the fetch result is empty
updatePipelineReviewMut(sheet, deals) ==
  LET preservedData == capturePreservedData(sheet)
  IN IF Len(deals) = 0
     THEN sheet
     ELSE writeDataToSheet(sheet, buildPipelineDataArray(deals, preservedData))

\* the body of updatePipelineReview after the fetch
updatePipelineReview(sheet, deals) ==
  LET preservedData == capturePreservedData(sheet)
  IN IF Len(deals) = 0
     THEN Placeholder
     ELSE writeDataToSheet(sheet, buildPipelineDataArray(deals, preservedData))

-----------------------------------------------------------------------------
(* Aggregate store: updateDirectorConsolidatedPipeline and its helpers *)

MAX_DIRECTOR_DEALS == 200
NOTES_COLUMN_INDEX_AE == 5      \* collectNotesFromTeamAEs, 0-based
NOTES_COLUMN_INDEX == 6         \* quick sync, 0-based
DIRECTOR_NOTES_COLUMN == 8      \* quick sync, 1-based
OWNER_SPLICE_INDEX == 2         \* splice(2, 1), 0-based

\* Map merge: entries of m2 overwrite those of m1
MapPut(m1, m2) ==
  [k \in (DOMAIN m1) \cup (DOMAIN m2) |-> IF k \in DOMAIN m2 THEN m2[k] ELSE m1[k]]

EmptyMap == [k \in {} |-> ""]

\* captureDirectorHighlighting: Map of Deal ID -> colours of its row
captureDirectorHighlighting(sheet) ==
  IF LastRow(sheet) < 2 THEN [k \in {} |-> <<>>]
  ELSE [id \in RowIds(sheet) |-> sheet.rows[LastRowOf(sheet, id)].colors]

\* the (Deal ID, notes) pairs one sheet contributes when the notes are read
\* from position col; emptyToo tells whether empty notes are entered as well
SheetNotes(sheet, col, emptyToo) ==
  IF LastRow(sheet) < 2 THEN EmptyMap
  ELSE LET has(i) == /\ Cell(sheet.rows[i], 1) # ""
                     /\ (emptyToo \/ Cell(sheet.rows[i], col) # "")
           ids == {Cell(sheet.rows[i], 1) : i \in {j \in 1..Len(sheet.rows) : has(j)}}
           lastOf(id) == CHOOSE i \in 1..Len(sheet.rows) :
                           /\ has(i) /\ Cell(sheet.rows[i], 1) = id
                           /\ \A j \in (i+1)..Len(sheet.rows) :
                                ~(has(j) /\ Cell(sheet.rows[j], 1) = id)
       IN [id \in ids |-> Cell(sheet.rows[lastOf(id)], col)]

\* notes of all the sheets of the AEs in teamAEs, later AEs overwriting
RECURSIVE TeamNotes(_, _, _)
TeamNotes(teamAEs, sheets, col) ==
  IF Len(teamAEs) = 0 THEN EmptyMap
  ELSE MapPut(TeamNotes(SubSeq(teamAEs, 1, Len(teamAEs) - 1), sheets, col),
              SheetNotes(sheets[teamAEs[Len(teamAEs)]], col, FALSE))

\* collectNotesFromTeamAEs: Map of Deal ID -> notes (non-empty notes only)
collectNotesFromTeamAEs(teamAEs, sheets) ==
  TeamNotes(teamAEs, sheets, NOTES_COLUMN_INDEX_AE + 1)

\* rank of a timestamp string under localeCompare
DateRank(s) ==
  CASE s = "" -> 0
    [] s = "2025-03-01T09:30:00Z" -> 1
    [] s = "2025-03-05T16:00:00Z" -> 2
    [] OTHER -> 0

\* a comparator that looks at the last activity only
PriorityCompareMut(a, b) ==
  DateRank(b.deal.notes_last_updated) - DateRank(a.deal.notes_last_updated)

\* the comparator of allDeals.sort: negative, zero or positive
PriorityCompare(a, b) ==
  LET aNext == a.deal.notes_next_activity_date
      bNext == b.deal.notes_next_activity_date
      aLast == a.deal.notes_last_updated
      bLast == b.deal.notes_last_updated
  IN CASE aNext # "" /\ bNext = "" -> -1
       [] aNext = "" /\ bNext # "" -> 1
       [] aNext # "" /\ bNext # "" -> DateRank(bNext) - DateRank(aNext)
       [] OTHER -> DateRank(bLast) - DateRank(aLast)

\* stable insertion of x into the sorted sequence s
RECURSIVE InsertSorted(_, _)
InsertSorted(s, x) ==
  IF Len(s) = 0 THEN <<x>>
  ELSE IF PriorityCompare(x, s[Len(s)]) < 0
       THEN InsertSorted(SubSeq(s, 1, Len(s) - 1), x) \o <<s[Len(s)]>>
       ELSE s \o <<x>>

RECURSIVE SortDeals(_)
SortDeals(s) ==
  IF Len(s) = 0 THEN <<>>
  ELSE InsertSorted(SortDeals(SubSeq(s, 1, Len(s) - 1)), s[Len(s)])

\* allDeals.sort(...) and, when allDeals.length > maxDeals, allDeals.splice(maxDeals)
sortAndLimit(allDeals, maxDeals) ==
  LET sorted == SortDeals(allDeals)
  IN IF Len(sorted) > maxDeals THEN SubSeq(sorted, 1, maxDeals) ELSE sorted

\* the team's deals, each tagged with the owner's name, in teamAEs order
RECURSIVE FetchTeam(_, _)
FetchTeam(teamAEs, responseOk) ==
  IF Len(teamAEs) = 0 THEN <<>>
  ELSE LET o == teamAEs[Len(teamAEs)]
           deals == fetchDealsForAE(o, responseOk[o])
       IN FetchTeam(SubSeq(teamAEs, 1, Len(teamAEs) - 1), responseOk)
            \o [i \in 1..Len(deals) |-> [deal |-> DealOf(deals[i]), ownerName |-> o]]

\* buildConsolidatedPipelineDataArray: one row per deal
ConsolidatedRow(t, notesMap) ==
  <<t.deal.id,
    t.deal.dealname,
    t.ownerName,
    STAGE_MAP(t.deal.dealstage),
    formatDate(t.deal.notes_last_updated),
    formatDate(t.deal.notes_next_activity_date),
    IF t.deal.id \in DOMAIN notesMap THEN notesMap[t.deal.id] ELSE "",
    t.deal.why_not_purchase_today_>>

buildConsolidatedPipelineDataArray(allDeals, notesMap) ==
  [i \in 1..Len(allDeals) |-> ConsolidatedRow(allDeals[i], notesMap)]

\* sheet.clear() and writeConsolidatedPipelineData: header and data rows,
\* all colours back to the default
writeConsolidatedPipelineData(dataRows) ==
  [hdr |-> DirectorHeaders,
   rows |-> [i \in 1..Len(dataRows) |->
               [vals |-> dataRows[i], colors |-> Fill(Len(DirectorHeaders), White)]]]

\* restoreDirectorHighlighting: the colours captured for a Deal ID are set on
\* its row; setBackgrounds throws when the captured array is not as wide as
\* the range, which ends the restore at that row
RestoreUpTo(sheet, highlightMap, n) ==
  [sheet EXCEPT !.rows =
     [i \in 1..Len(sheet.rows) |->
        LET id == Cell(sheet.rows[i], 1)
        IN IF i <= n /\ id # "" /\ id \in DOMAIN highlightMap
           THEN [sheet.rows[i] EXCEPT !.colors = highlightMap[id]]
           ELSE sheet.rows[i]]]

RestoreThrowsAt(sheet, highlightMap) ==
  {i \in 1..Len(sheet.rows) :
     LET id == Cell(sheet.rows[i], 1)
     IN id # "" /\ id \in DOMAIN highlightMap
        /\ Len(highlightMap[id]) # Len(sheet.hdr)}

Min(S) == CHOOSE x \in S : \A y \in S : x <= y

\* a restore that puts every captured colour one column to the left
restoreDirectorHighlightingMut(sheet, highlightMap) ==
  IF DOMAIN highlightMap = {} THEN sheet
  ELSE RestoreUpTo(sheet,
                   [id \in DOMAIN highlightMap |->
                      PadTo(SpliceOut(highlightMap[id], 1), Len(highlightMap[id]), White)],
                   Len(sheet.rows))

restoreDirectorHighlighting(sheet, highlightMap) ==
  IF DOMAIN highlightMap = {} THEN sheet
  ELSE IF RestoreThrowsAt(sheet, highlightMap) = {}
       THEN RestoreUpTo(sheet, highlightMap, Len(sheet.rows))
       ELSE RestoreUpTo(sheet, highlightMap, Min(RestoreThrowsAt(sheet, highlightMap)) - 1)

\* a team filter that yields the first AE of the directory only
teamAEsStrictMut == SubSeq(OwnerSeq, 1, 1)

\* director.team === p.team
teamAEsStrict == SelectSeq(OwnerSeq, LAMBDA o : TeamOf[o] = DirectorTeam)

\* the body of updateDirectorConsolidatedPipeline for a director whose team
\* has the AEs teamAEs, with the cap maxDeals: capture, early return for a
\* team without AEs, fetch, sort and cap, notes, clear and write, restore
updateDirectorConsolidatedPipelineFor(sheet, sheets, responseOk, teamAEs, maxDeals) ==
  LET preservedHighlighting == captureDirectorHighlighting(sheet)
      allDeals == sortAndLimit(FetchTeam(teamAEs, responseOk), maxDeals)
      notesMap == collectNotesFromTeamAEs(teamAEs, sheets)
      dataRows == buildConsolidatedPipelineDataArray(allDeals, notesMap)
  IN IF Len(teamAEs) = 0 THEN sheet
     ELSE restoreDirectorHighlighting(writeConsolidatedPipelineData(dataRows),
                                      preservedHighlighting)

\* updateDirectorConsolidatedPipeline: the director tab after the rebuild
updateDirectorConsolidatedPipeline(sheet, sheets, responseOk) ==
  updateDirectorConsolidatedPipelineFor(sheet, sheets, responseOk,
                                        teamAEsStrict, MAX_DIRECTOR_DEALS)

-----------------------------------------------------------------------------
(* Cross-store propagation: the quick sync operations *)

\* String.prototype.toLowerCase on the team names and addresses of the model
toLowerCase(t) ==
  CASE t = "Sales" -> "sales"
    [] t = "Ann@x.io" -> "ann@x.io"
    [] OTHER -> t

\* p.team && p.team.toLowerCase() === director.team.toLowerCase() && p.sheetId
teamAEsLower ==
  SelectSeq(OwnerSeq, LAMBDA o : toLowerCase(TeamOf[o]) = toLowerCase(DirectorTeam))

\* setValue on the cell (row, col) of a data row
SetCell(row, col, x) ==
  [row EXCEPT !.vals = SetAt(PadTo(row.vals, col, ""), col, x),
              !.colors = PadTo(row.colors, col, White)]

\* pullNotesFromMyTeam, steps 4 and 5: the director tab after the pull
PullNotesInto(dirSheet, sheets) ==
  LET notesMap == TeamNotes(teamAEsLower, sheets, NOTES_COLUMN_INDEX + 1)
  IN IF DOMAIN notesMap = {} \/ LastRow(dirSheet) < 2 THEN dirSheet
     ELSE [hdr |-> PadTo(dirSheet.hdr, DIRECTOR_NOTES_COLUMN, ""),
           rows |-> [i \in 1..Len(dirSheet.rows) |->
                       LET dealId == Cell(dirSheet.rows[i], 1)
                       IN IF dealId # "" /\ dealId \in DOMAIN notesMap
                          THEN SetCell(dirSheet.rows[i], DIRECTOR_NOTES_COLUMN,
                                       notesMap[dealId])
                          ELSE dirSheet.rows[i]]]

\* outcome of pullNotesFromMyTeam inside the lock
pullNotesFromMyTeam(dirSheet, sheets, activeIsDirectorTab) ==
  IF ~activeIsDirectorTab THEN [sheet |-> dirSheet, outcome |-> "wrong tab"]
  ELSE IF Len(teamAEsLower) = 0 THEN [sheet |-> dirSheet, outcome |-> "error"]
  ELSE [sheet |-> PullNotesInto(dirSheet, sheets), outcome |-> "done"]

\* loadConfiguration returns the object {salespeople, goalsMap, ...};
\* an array method applied to it raises a TypeError
loadConfigurationIsArray == FALSE

\* pushMyNotesToDirector inside the lock: salespeople.find(...) on the
\* configuration object throws before anything is read or written
pushMyNotesToDirector(dirSheet) ==
  IF loadConfigurationIsArray
  THEN [sheet |-> dirSheet, outcome |-> "done"]
  ELSE [sheet |-> dirSheet, outcome |-> "error"]

\* the colours of a director row as they are applied to an AE row that has
\* aeColumnCount columns
AdjustHighlighting(colors, aeColumnCount) ==
  LET spliced == IF Len(colors) > aeColumnCount
                 THEN SpliceOut(colors, OWNER_SPLICE_INDEX + 1)
                 ELSE colors
  IN Take(PadTo(spliced, aeColumnCount, White), aeColumnCount)

\* syncHighlightingToMyTeam, step 5 for one AE: the AE tab after the sync
ApplyHighlightingToAE(aeSheet, directorHighlighting) ==
  IF LastRow(aeSheet) < 2 THEN aeSheet
  ELSE [aeSheet EXCEPT !.rows =
          [i \in 1..Len(aeSheet.rows) |->
             LET dealId == Cell(aeSheet.rows[i], 1)
             IN IF dealId # "" /\ dealId \in DOMAIN directorHighlighting
                THEN [aeSheet.rows[i] EXCEPT !.colors =
                        AdjustHighlighting(directorHighlighting[dealId],
                                           LastColumn(aeSheet))]
                ELSE aeSheet.rows[i]]]

\* the AE tabs after the highlighting of the director tab went down to team
HighlightTeam(dirSheet, sheets, team) ==
  LET directorHighlighting == captureDirectorHighlighting(dirSheet)
  IN [o \in Owners |->
        IF o \in SeqToSet(team)
        THEN ApplyHighlightingToAE(sheets[o], directorHighlighting)
        ELSE sheets[o]]

\* a highlighting sync that carries the director's Notes cells down as well
syncHighlightingToMyTeamMut(dirSheet, sheets, activeIsDirectorTab) ==
  LET down == SheetNotes(dirSheet, IndexOf(DirectorHeaders, "Notes"), TRUE)
      coloured == HighlightTeam(dirSheet, sheets, teamAEsLower)
  IN IF ~activeIsDirectorTab THEN [sheets |-> sheets, outcome |-> "wrong tab"]
     ELSE [sheets |->
             [o \in Owners |->
                [coloured[o] EXCEPT !.rows =
                   [i \in 1..Len(coloured[o].rows) |->
                      LET dealId == Cell(coloured[o].rows[i], 1)
                      IN IF dealId \in DOMAIN down
                         THEN SetCell(coloured[o].rows[i], notesFieldIndex, down[dealId])
                         ELSE coloured[o].rows[i]]]],
           outcome |-> "done"]

\* outcome of syncHighlightingToMyTeam inside the lock
syncHighlightingToMyTeam(dirSheet, sheets, activeIsDirectorTab) ==
  IF ~activeIsDirectorTab THEN [sheets |-> sheets, outcome |-> "wrong tab"]
  ELSE IF DOMAIN captureDirectorHighlighting(dirSheet) = {}
       THEN [sheets |-> sheets, outcome |-> "no highlighting"]
  ELSE IF Len(teamAEsLower) = 0 THEN [sheets |-> sheets, outcome |-> "error"]
  ELSE [sheets |-> HighlightTeam(dirSheet, sheets, teamAEsLower), outcome |-> "done"]

\* syncDirectorHighlightingToAESheets(salespeople): step 4 of the full cycle,
\* flags down for every director
syncDirectorHighlightingToAESheets(dirSheet, sheets) ==
  HighlightTeam(dirSheet, sheets, teamAEsStrict)

-----------------------------------------------------------------------------
(* State machine: invocations under the script lock *)

Ops == {"cycle", "pull", "push", "sync"}
NoSnap == [valid |-> FALSE]

Step(act, p, o, ids, outcome) ==
  [act |-> act, owner |-> o, ids |-> ids, outcome |-> outcome, back |-> {}]

\* the outcomes a remote or platform call may have: failures are explored
\* while the budget of environment events lasts
Outcomes == IF envCount < MaxEnv THEN {TRUE, FALSE} ELSE {TRUE}

AllOk == [o \in Owners |-> TRUE]

\* an invocation that went on without looking at the result of tryLock
ProceedsMut(lockAcquired) == TRUE

\* `if (!lockAcquired) { ...; return; }': the body runs only with the lock
Proceeds(lockAcquired) == lockAcquired

\* the stores right after provisioning and one undisturbed full cycle
InitialEntity ==
  [o \in Owners |-> updatePipelineReview(FreshTab, fetchDealsForAE(o, TRUE))]

InitialAgg ==
  updateDirectorConsolidatedPipeline(EmptyDirectorTab, InitialEntity, AllOk)

Init ==
  /\ remote = [d \in Deals |->
                 [owner |-> IF d = "101" THEN "ae1" ELSE "ae2",
                  name |-> "Acme", why |-> "price"]]
  /\ entity = InitialEntity
  /\ agg = InitialAgg
  /\ hub = EmptyDirectorTab
  /\ lock = NoHolder
  /\ pc = [p \in Procs |-> "idle"]
  /\ op = [p \in Procs |-> "cycle"]
  /\ idx = [p \in Procs |-> 1]
  /\ clean = FALSE
  /\ snap = NoSnap
  /\ last = Step("init", "p1", "ae1", {}, "")
  /\ gone = {}
  /\ envCount = 0
  /\ invCount = 0

\* invocations are interchangeable: a new one takes the first free slot
FirstFree(q) == pc[q] = "idle" /\ (q = "p2" => pc["p1"] # "idle")

\* a menu click or trigger starts an invocation
Start(p) ==
  /\ pc[p] = "idle"
  /\ \A q \in Procs : FirstFree(q) => q = p
  /\ invCount < MaxInv
  /\ \E o \in Ops : op' = [op EXCEPT ![p] = o]
  /\ pc' = [pc EXCEPT ![p] = "trylock"]
  /\ invCount' = invCount + 1
  /\ last' = Step("start", p, "ae1", {}, "")
  /\ UNCHANGED <<remote, entity, agg, hub, lock, idx, clean, snap, envCount, gone>>

\* lock.tryLock(timeout): TRUE when the lock becomes free within the wait
TryLock(p) ==
  /\ pc[p] = "trylock"
  /\ LET lockAcquired == (lock = NoHolder)
     IN /\ lock' = IF lockAcquired THEN p ELSE lock
        /\ pc' = [pc EXCEPT ![p] =
                    IF Proceeds(lockAcquired)
                    THEN (IF op[p] = "cycle" THEN "config" ELSE "body")
                    ELSE "idle"]
        /\ last' = Step("trylock", p, "ae1", {},
                        IF lockAcquired THEN "acquired" ELSE "busy")
        /\ clean' = IF lockAcquired THEN op[p] = "cycle" ELSE clean
        /\ op' = [op EXCEPT ![p] = IF Proceeds(lockAcquired) THEN op[p] ELSE "cycle"]
  /\ UNCHANGED idx
  /\ UNCHANGED <<remote, entity, agg, hub, snap, envCount, invCount, gone>>

\* a failure inside a running cycle makes it differ from an undisturbed one
Disturbed == FALSE

\* generateAllDashboards step 1: loadConfiguration, which may throw
LoadConfig(p) ==
  /\ pc[p] = "config"
  /\ \E ok \in Outcomes :
       /\ pc' = [pc EXCEPT ![p] = IF ok THEN "owners" ELSE "throw"]
       /\ envCount' = IF ok THEN envCount ELSE envCount + 1
       /\ clean' = IF ok THEN clean ELSE Disturbed
       /\ last' = Step("config", p, "ae1", {}, IF ok THEN "loaded" ELSE "fatal")
  /\ UNCHANGED <<remote, entity, agg, hub, lock, op, idx, snap, invCount, gone>>

\* the notes a store shows for a Record ID: the cell under the header Notes
NotesShown(sheet, id) ==
  Cell(sheet.rows[LastRowOf(sheet, id)], IndexOf(sheet.hdr, "Notes"))

\* rows of o that carry notes and whose Record ID is not among the fetched
Dropped(o, fetched) ==
  {id \in (RowIds(entity[o]) \cap Deals) \ fetched : NotesShown(entity[o], id) # ""}

\* fetched Record IDs whose row an earlier refresh had dropped with notes
CameBack(o, fetched) ==
  {id \in fetched \ RowIds(entity[o]) : <<o, id>> \in gone}

\* generateAllDashboards step 2, one iteration of salespeople.forEach:
\* getOrCreatePersonSheet may throw; updatePipelineReview refreshes the tab
ProcessOwner(p) ==
  /\ pc[p] = "owners"
  /\ LET o == OwnerSeq[idx[p]]
     IN \E opens \in Outcomes :
        \E responseOk \in (IF opens THEN Outcomes ELSE {TRUE}) :
          LET deals == fetchDealsForAE(o, responseOk)
          IN /\ entity' = IF opens
                          THEN [entity EXCEPT ![o] = updatePipelineReview(entity[o], deals)]
                          ELSE entity
             /\ envCount' = IF opens /\ responseOk THEN envCount ELSE envCount + 1
             /\ clean' = IF opens /\ responseOk THEN clean ELSE Disturbed
             /\ last' = [Step("owner", p, o, SeqToSet(deals),
                              IF ~opens THEN "error"
                              ELSE IF responseOk THEN "refreshed" ELSE "fetch failed")
                           EXCEPT !.back = IF opens THEN CameBack(o, SeqToSet(deals)) ELSE {}]
             /\ gone' = IF opens
                        THEN (gone \ ({o} \X CameBack(o, SeqToSet(deals))))
                               \cup ({o} \X Dropped(o, SeqToSet(deals)))
                        ELSE gone
  /\ idx' = [idx EXCEPT ![p] = idx[p] + 1]
  /\ pc' = [pc EXCEPT ![p] = IF idx[p] = Len(OwnerSeq) THEN "directors" ELSE "owners"]
  /\ UNCHANGED <<remote, agg, hub, lock, op, snap, invCount>>

\* generateAllDashboards step 3: updateAllDirectorConsolidatedPipelines
UpdateDirectors(p) ==
  /\ pc[p] = "directors"
  /\ \E ok1 \in Outcomes :
     \E ok2 \in (IF ok1 THEN Outcomes ELSE {TRUE}) :
       LET responseOk == [o \in Owners |-> IF o = "ae1" THEN ok1 ELSE ok2]
       IN /\ agg' = updateDirectorConsolidatedPipeline(agg, entity, responseOk)
          /\ envCount' = IF ok1 /\ ok2 THEN envCount ELSE envCount + 1
          /\ clean' = IF ok1 /\ ok2 THEN clean ELSE Disturbed
          /\ last' = Step("directors", p, "ae1", {},
                          IF ok1 /\ ok2 THEN "rebuilt" ELSE "fetch failed")
  /\ pc' = [pc EXCEPT ![p] = "flags"]
  /\ UNCHANGED <<remote, entity, hub, lock, op, idx, snap, invCount, gone>>

\* generateAllDashboards step 4: syncDirectorHighlightingToAESheets
FlagsDown(p) ==
  /\ pc[p] = "flags"
  /\ entity' = syncDirectorHighlightingToAESheets(agg, entity)
  /\ pc' = [pc EXCEPT ![p] = "return"]
  /\ last' = Step("flags", p, "ae1", {}, "done")
  /\ UNCHANGED <<remote, agg, hub, lock, op, idx, clean, snap, envCount, invCount, gone>>

\* how the try block is left: by return, or by an exception
ExitOf(outcome) == IF outcome = "error" THEN "throw" ELSE "return"

\* pullNotesFromMyTeam between tryLock and finally
PullBody(p) ==
  /\ pc[p] = "body" /\ op[p] = "pull"
  /\ \E activeIsDirectorTab \in BOOLEAN :
       LET r == pullNotesFromMyTeam(agg, entity, activeIsDirectorTab)
       IN /\ agg' = r.sheet
          /\ last' = Step("pull", p, "ae1", {}, r.outcome)
          /\ pc' = [pc EXCEPT ![p] = ExitOf(r.outcome)]
  /\ snap' = NoSnap
  /\ UNCHANGED <<remote, entity, hub, lock, op, idx, clean, envCount, invCount, gone>>

\* pushMyNotesToDirector between tryLock and finally
PushBody(p) ==
  /\ pc[p] = "body" /\ op[p] = "push"
  /\ LET r == pushMyNotesToDirector(agg)
     IN /\ agg' = r.sheet
        /\ last' = Step("push", p, "ae1", {}, r.outcome)
        /\ pc' = [pc EXCEPT ![p] = ExitOf(r.outcome)]
  /\ snap' = NoSnap
  /\ UNCHANGED <<remote, entity, hub, lock, op, idx, clean, envCount, invCount, gone>>

\* syncHighlightingToMyTeam between tryLock and finally
SyncBody(p) ==
  /\ pc[p] = "body" /\ op[p] = "sync"
  /\ \E activeIsDirectorTab \in BOOLEAN :
       LET r == syncHighlightingToMyTeam(agg, entity, activeIsDirectorTab)
       IN /\ entity' = r.sheets
          /\ last' = Step("sync", p, "ae1", {}, r.outcome)
          /\ pc' = [pc EXCEPT ![p] = ExitOf(r.outcome)]
  /\ snap' = NoSnap
  /\ UNCHANGED <<remote, agg, hub, lock, op, idx, clean, envCount, invCount, gone>>

\* a release placed at the end of the try block would run on return only
finallyRunsMut(exit) == exit = "return"

\* the finally block runs however the try block was left
finallyRuns(exit) == exit \in {"return", "throw"}

\* `finally { lock.releaseLock(); }' and the return to the caller
Release(p) ==
  /\ pc[p] \in {"return", "throw"}
  /\ lock' = IF finallyRuns(pc[p]) /\ lock = p THEN NoHolder ELSE lock
  /\ pc' = [pc EXCEPT ![p] = "idle"]
  /\ snap' = IF op[p] = "cycle" /\ clean
             THEN [valid |-> TRUE, entity |-> entity, agg |-> agg]
             ELSE NoSnap
  /\ last' = Step("release", p, "ae1", {},
                  IF op[p] = "cycle" /\ clean /\ snap.valid THEN "repeat" ELSE pc[p])
  /\ op' = [op EXCEPT ![p] = "cycle"]
  /\ idx' = [idx EXCEPT ![p] = 1]
  /\ clean' = FALSE
  /\ UNCHANGED <<remote, entity, agg, hub, envCount, invCount, gone>>

-----------------------------------------------------------------------------
(* The environment: people editing the sheets, the CRM changing *)

Green == "g"                   \* a highlight an AE applied in the own tab
DirectorText == "see me"       \* a text the director typed into the own tab
ExtraHeader == "My column"     \* a column an AE added right of the layout
HighlightColumns == {7}        \* the director column the model colours: Notes

HasDealRows(sheet) == Len(sheet.hdr) >= 1 /\ sheet.hdr[1] = "Deal ID"

EnvStep(act, o) ==
  /\ envCount < MaxEnv
  /\ envCount' = envCount + 1
  /\ clean' = Disturbed
  /\ snap' = NoSnap
  /\ last' = Step(act, "p1", o, {}, "")
  /\ UNCHANGED <<hub, lock, pc, op, idx, invCount, gone>>

\* an AE types into the Notes cell of one of the own rows
HumanEditNote(o) ==
  /\ HasDealRows(entity[o])
  /\ \E r \in 1..Len(entity[o].rows) : \E text \in NoteTexts :
       /\ Cell(entity[o].rows[r], notesFieldIndex) # text
       /\ entity' = [entity EXCEPT ![o].rows[r] =
                       SetCell(entity[o].rows[r], notesFieldIndex, text)]
  /\ EnvStep("edit note", o)
  /\ UNCHANGED <<remote, agg>>

\* an AE colours the Notes cell of one of the own rows
HumanHighlightEntity(o) ==
  /\ HasDealRows(entity[o])
  /\ \E r \in 1..Len(entity[o].rows) :
       /\ entity[o].rows[r].colors[notesFieldIndex] # Green
       /\ entity' = [entity EXCEPT ![o].rows[r].colors[notesFieldIndex] = Green]
  /\ EnvStep("highlight entity", o)
  /\ UNCHANGED <<remote, agg>>

\* an AE adds a column of the own right of the layout
HumanAddColumn(o) ==
  /\ HasDealRows(entity[o])
  /\ LastColumn(entity[o]) = Len(EntityHeaders)
  /\ entity' = [entity EXCEPT ![o] =
       [hdr |-> entity[o].hdr \o <<ExtraHeader>>,
        rows |-> [i \in 1..Len(entity[o].rows) |->
                    [vals |-> entity[o].rows[i].vals \o <<"">>,
                     colors |-> entity[o].rows[i].colors \o <<White>>]]]]
  /\ EnvStep("add column", o)
  /\ UNCHANGED <<remote, agg>>

\* the director colours a cell of a row of the consolidated tab
HumanHighlightAgg ==
  /\ \E r \in 1..Len(agg.rows) : \E c \in HighlightColumns :
       /\ agg.rows[r].colors[c] # Yellow
       /\ agg' = [agg EXCEPT !.rows[r].colors[c] = Yellow]
  /\ EnvStep("highlight aggregate", "ae1")
  /\ UNCHANGED <<remote, entity>>

\* the director types into the Notes cell of a row of the consolidated tab
HumanEditAggNote ==
  /\ \E r \in {1} \cap (1..Len(agg.rows)) :
       /\ Cell(agg.rows[r], IndexOf(DirectorHeaders, "Notes")) # DirectorText
       /\ agg' = [agg EXCEPT !.rows[r] =
                    SetCell(agg.rows[r], IndexOf(DirectorHeaders, "Notes"), DirectorText)]
  /\ EnvStep("edit aggregate note", "ae1")
  /\ UNCHANGED <<remote, entity>>

\* a deal changes hands, leaves the filter or comes back into it
MovingDeals == {"102"}
DriftingOwners == {"ae1"}

RemoteChange ==
  /\ \E d \in MovingDeals : \E o \in Owners \cup {NoOwner} :
       /\ remote[d].owner # o
       /\ remote' = [remote EXCEPT ![d].owner = o]
  /\ EnvStep("remote change", "ae1")
  /\ UNCHANGED <<entity, agg>>

Next ==
  \/ \E p \in Procs : Start(p)
  \/ \E p \in Procs : TryLock(p)
  \/ \E p \in Procs : LoadConfig(p)
  \/ \E p \in Procs : ProcessOwner(p)
  \/ \E p \in Procs : UpdateDirectors(p)
  \/ \E p \in Procs : FlagsDown(p)
  \/ \E p \in Procs : PullBody(p)
  \/ \E p \in Procs : PushBody(p)
  \/ \E p \in Procs : SyncBody(p)
  \/ \E p \in Procs : Release(p)
  \/ \E o \in Owners : HumanEditNote(o)
  \/ \E o \in DriftingOwners : HumanHighlightEntity(o)
  \/ \E o \in DriftingOwners : HumanAddColumn(o)
  \/ HumanHighlightAgg
  \/ HumanEditAggNote
  \/ RemoteChange

Spec == Init /\ [][Next]_vars

TypeOK ==
  /\ lock \in Procs \cup {NoHolder}
  /\ envCount \in 0..MaxEnv
  /\ invCount \in 0..MaxInv

-----------------------------------------------------------------------------
(* Properties: the script lock *)

\* positions between a successful tryLock and the end of the finally block
InRegion(p) ==
  pc[p] \in {"config", "owners", "directors", "flags", "body", "return", "throw"}

\* C1: at most one invocation among the full cycle, the quick notes
\* operations and the quick highlighting operation is inside its locked
\* region at any time.
C1_MutualExclusion ==
  \A p, q \in Procs : (InRegion(p) /\ InRegion(q)) => p = q

\* C1 witness: an invocation was turned away by tryLock while another one
\* was inside its region.
C1_Witness ==
  /\ last.act = "trylock" /\ last.outcome = "busy"
  /\ \E p \in Procs : InRegion(p) /\ lock = p

\* C2: an invocation that has returned to its caller does not hold the
\* lock, whichever way it left its body, and the lock is only ever held by
\* an invocation that is still inside its region.
C2_LockReleased ==
  /\ \A p \in Procs : pc[p] = "idle" => lock # p
  /\ \A p \in Procs : lock = p => InRegion(p)

\* C2 witness: an invocation whose body ended with an exception has run
\* its finally block and the lock is free again.
C2_Witness ==
  /\ last.act = "release" /\ last.outcome = "throw"
  /\ lock = NoHolder
  /\ \A p \in Procs : pc[p] = "idle"

-----------------------------------------------------------------------------
(* Properties: refresh of an entity store *)

\* the steps of the full cycle
CycleActs == {"config", "owner", "directors", "flags"}

\* the step just taken refreshed the store of o (the fetch result is in
\* last'.ids; a failed fetch is an empty fetch result)
RefreshOf(o) ==
  /\ last'.act = "owner" /\ last'.owner = o
  /\ last'.outcome \in {"refreshed", "fetch failed"}

C4_OrphanDrop ==
  [][\A o \in Owners : RefreshOf(o) =>
       /\ RowIds(entity'[o]) \cap Deals = last'.ids
       /\ \A id \in last'.ids \ RowIds(entity[o]) :
            LET row == entity'[o].rows[LastRowOf(entity'[o], id)]
            IN /\ NotesShown(entity'[o], id) = ""
               /\ \A c \in 1..Len(row.colors) : row.colors[c] = White]_vars

\* C4 witness: a Record ID whose row was dropped while it carried notes is
\* back in the fetch result and its new row shows no notes.
C4_Witness ==
  /\ last.act = "owner" /\ last.outcome = "refreshed"
  /\ \E id \in last.back : /\ id \in RowIds(entity[last.owner])
                           /\ NotesShown(entity[last.owner], id) = ""

-----------------------------------------------------------------------------
(* Properties: direction of propagation *)

CellValues(sheet) ==
  {sheet.rows[i].vals[c] : i \in 1..Len(sheet.rows), c \in 1..Len(sheet.hdr)}

CellColours(sheet) ==
  {sheet.rows[i].colors[c] : i \in 1..Len(sheet.rows), c \in 1..Len(sheet.hdr)}

-----------------------------------------------------------------------------
(* The Director Hub tab and the Directives menu *)

\* the header row the Directives menu works on: it looks up 'Owner',
\* 'Deal Name', 'Director Priority' and 'Director Note' by name
HubHeaders ==
  <<"Owner", "Deal ID", "Deal Name", "Stage", "Director Priority", "Director Note">>

\* an AE tab that carries the two director columns right of the layout
FlaggedEntityHeaders == EntityHeaders \o <<"Director Priority", "Director Note">>

HubDealNames == {"Acme", "Bolt"}

\* the menu entries: markAsHot with a note, clearFlag
FlagChoices ==
  {[flag |-> "Hot", note |-> "see me", color |-> Yellow],
   [flag |-> "", note |-> "", color |-> White]}

\* buildDirectorHubDataArray: owner first, then the deal fields, the
\* director fields empty
HubRow(d) ==
  <<remote[d].owner, d, remote[d].name, STAGE_MAP("90284261"), "", "">>

HubTab ==
  LET ds == SelectSeq(DealOrder, LAMBDA d : remote[d].owner = "ae1")
              \o SelectSeq(DealOrder, LAMBDA d : remote[d].owner = "ae2")
  IN [hdr |-> HubHeaders,
      rows |-> [i \in 1..Len(ds) |->
                  [vals |-> HubRow(ds[i]), colors |-> Fill(Len(HubHeaders), White)]]]

\* rowRange.setBackgrounds([colors]) on a range of `width' cells throws when
\* the array has another width; the result is the row and whether it threw
SetBackgrounds(row, colors, width) ==
  IF Len(colors) = width
  THEN [row |-> [row EXCEPT !.colors = colors], threw |-> FALSE]
  ELSE [row |-> row, threw |-> TRUE]

\* first data row whose cell in column col equals x; 0 when there is none
FirstRowWith(sheet, col, x) ==
  IF \E i \in 1..Len(sheet.rows) : Cell(sheet.rows[i], col) = x
  THEN CHOOSE i \in 1..Len(sheet.rows) :
         /\ Cell(sheet.rows[i], col) = x
         /\ \A j \in 1..(i-1) : Cell(sheet.rows[j], col) # x
  ELSE 0

\* syncSingleDealToAE: the AE tabs after the flag of one hub row went down
syncSingleDealToAE(sheets, dealName, ownerName, flag, note, rowBackground) ==
  IF ownerName \notin Owners THEN sheets
  ELSE LET sheet == sheets[ownerName]
           dealNameCol == IndexOf(sheet.hdr, "Deal Name")
           priorityCol == IndexOf(sheet.hdr, "Director Priority")
           noteCol == IndexOf(sheet.hdr, "Director Note")
           i == FirstRowWith(sheet, dealNameCol, dealName)
       IN IF LastRow(sheet) < 2 THEN sheets
          ELSE IF dealNameCol = 0 \/ priorityCol = 0 \/ noteCol = 0 THEN sheets
          ELSE IF i = 0 THEN sheets
          ELSE LET written == SetCell(SetCell(sheet.rows[i], priorityCol, flag),
                                      noteCol, note)
               IN [sheets EXCEPT ![ownerName].rows[i] =
                     SetBackgrounds(written, rowBackground, Len(sheet.hdr)).row]

\* applyDirectorFlag on the selected data row of the hub: the hub tab after
applyDirectorFlag(sheet, selectedRow, choice) ==
  LET priorityCol == IndexOf(sheet.hdr, "Director Priority")
      noteCol == IndexOf(sheet.hdr, "Director Note")
      written == SetCell(SetCell(sheet.rows[selectedRow], priorityCol, choice.flag),
                         noteCol, choice.note)
  IN [sheet EXCEPT !.rows[selectedRow] =
        [written EXCEPT !.colors = Fill(Len(sheet.hdr), choice.color)]]

\* flagsByOwner[owner]: deal name -> directive of the last hub row of that
\* owner and name that carries a priority or a note
FlagsOf(sheet, owner) ==
  LET ownerCol == IndexOf(sheet.hdr, "Owner")
      dealNameCol == IndexOf(sheet.hdr, "Deal Name")
      priorityCol == IndexOf(sheet.hdr, "Director Priority")
      noteCol == IndexOf(sheet.hdr, "Director Note")
      has(i) == /\ Cell(sheet.rows[i], ownerCol) = owner
                /\ Cell(sheet.rows[i], dealNameCol) # ""
                /\ (Cell(sheet.rows[i], priorityCol) # "" \/ Cell(sheet.rows[i], noteCol) # "")
      rowsOf == {i \in 1..Len(sheet.rows) : has(i)}
      names == {Cell(sheet.rows[i], dealNameCol) : i \in rowsOf}
      lastOf(n) == CHOOSE i \in rowsOf :
                     /\ Cell(sheet.rows[i], dealNameCol) = n
                     /\ \A j \in rowsOf : Cell(sheet.rows[j], dealNameCol) = n => j <= i
  IN [n \in names |->
        [priority |-> Cell(sheet.rows[lastOf(n)], priorityCol),
         note |-> Cell(sheet.rows[lastOf(n)], noteCol),
         background |-> sheet.rows[lastOf(n)].colors]]

\* syncDirectorFlagsToAESheets for one AE: the rows whose deal name has a
\* directive receive it; a setBackgrounds that throws ends the loop
SyncFlagsToAE(sheet, flags) ==
  LET dealNameCol == IndexOf(sheet.hdr, "Deal Name")
      priorityCol == IndexOf(sheet.hdr, "Director Priority")
      noteCol == IndexOf(sheet.hdr, "Director Note")
      hit == {i \in 1..Len(sheet.rows) :
                Cell(sheet.rows[i], dealNameCol) \in (DOMAIN flags) \ {""}}
      flagOf(i) == flags[Cell(sheet.rows[i], dealNameCol)]
      throwing == {i \in hit : Len(flagOf(i).background) # Len(sheet.hdr)}
      stop == IF throwing = {} THEN Len(sheet.rows) ELSE Min(throwing)
  IN IF LastRow(sheet) < 2 THEN sheet
     ELSE IF dealNameCol = 0 \/ priorityCol = 0 \/ noteCol = 0 THEN sheet
     ELSE [sheet EXCEPT !.rows =
             [i \in 1..Len(sheet.rows) |->
                IF i \in hit /\ i <= stop
                THEN SetBackgrounds(
                       SetCell(SetCell(sheet.rows[i], priorityCol, flagOf(i).priority),
                               noteCol, flagOf(i).note),
                       flagOf(i).background, Len(sheet.hdr)).row
                ELSE sheet.rows[i]]]

\* syncDirectorFlagsToAESheets: the AE tabs after the batch sync
syncDirectorFlagsToAESheets(hubSheet, sheets) ==
  IF LastRow(hubSheet) < 2 THEN sheets
  ELSE IF \E h \in {"Owner", "Deal Name", "Director Priority", "Director Note"} :
            IndexOf(hubSheet.hdr, h) = 0
       THEN sheets
  ELSE [o \in Owners |->
          IF DOMAIN FlagsOf(hubSheet, o) = {} THEN sheets[o]
          ELSE SyncFlagsToAE(sheets[o], FlagsOf(hubSheet, o))]

-----------------------------------------------------------------------------
(* State machine of the Director Hub *)

InitHub ==
  /\ remote \in [Deals -> [owner : Owners, name : HubDealNames, why : {"price"}]]
  /\ entity = [o \in Owners |->
                 updatePipelineReview([hdr |-> FlaggedEntityHeaders, rows |-> <<>>],
                                      fetchDealsForAE(o, TRUE))]
  /\ agg = InitialAgg
  /\ hub = HubTab
  /\ lock = NoHolder
  /\ pc = [p \in Procs |-> "idle"]
  /\ op = [p \in Procs |-> "cycle"]
  /\ idx = [p \in Procs |-> 1]
  /\ clean = FALSE
  /\ snap = NoSnap
  /\ last = Step("init", "p1", "ae1", {}, "")
  /\ gone = {}
  /\ envCount = 0
  /\ invCount = 0

\* the director selects a data row of the hub and picks a menu entry
DirectorFlags ==
  /\ envCount < MaxEnv
  /\ \E selectedRow \in 1..Len(hub.rows) : \E choice \in FlagChoices :
       LET dealName == Cell(hub.rows[selectedRow], IndexOf(hub.hdr, "Deal Name"))
           ownerName == Cell(hub.rows[selectedRow], IndexOf(hub.hdr, "Owner"))
           rowBackground == Fill(Len(hub.hdr), choice.color)
       IN /\ hub' = applyDirectorFlag(hub, selectedRow, choice)
          /\ entity' = syncSingleDealToAE(entity, dealName, ownerName,
                                          choice.flag, choice.note, rowBackground)
          /\ last' = Step("flag", "p1", ownerName, {},
                          Cell(hub.rows[selectedRow], IndexOf(hub.hdr, "Deal ID")))
  /\ envCount' = envCount + 1
  /\ UNCHANGED <<remote, agg, lock, pc, op, idx, clean, snap, gone, invCount>>

\* the batch sync of the flags of the hub to the AE tabs
DirectorSync ==
  /\ invCount < MaxInv
  /\ entity' = syncDirectorFlagsToAESheets(hub, entity)
  /\ last' = Step("flag sync", "p1", "ae1", {}, "")
  /\ invCount' = invCount + 1
  /\ UNCHANGED <<remote, agg, hub, lock, pc, op, idx, clean, snap, gone, envCount>>

NextHub == DirectorFlags \/ DirectorSync

SpecHub == InitHub /\ [][NextHub]_vars

-----------------------------------------------------------------------------
(* Properties: the key of capture, merge and propagation *)

\* the hub rows that hold the Record ID id
HubRowsOf(id) ==
  {h \in 1..Len(hub.rows) : Cell(hub.rows[h], IndexOf(hub.hdr, "Deal ID")) = id}

-----------------------------------------------------------------------------
(* Properties: notes up, highlighting down *)

\* a notes-up propagation has just completed: the quick pull ran to its
\* end, or the full cycle rebuilt the aggregate store
NotesUpDone ==
  \/ last.act = "pull" /\ last.outcome = "done"
  \/ last.act = "directors"

\* C7: when a notes-up propagation has completed, every Record ID that
\* shows a non-empty note in its owner's entity store and has a row in the
\* aggregate store shows the same note in the aggregate store.
C7_NotesUp ==
  NotesUpDone =>
    \A o \in Owners : \A id \in RowIds(entity[o]) \cap RowIds(agg) \cap Deals :
      NotesShown(entity[o], id) # ""
        => NotesShown(agg, id) = NotesShown(entity[o], id)


\* a highlighting-down propagation has just completed: the quick sync ran
\* to its end, or the full cycle ran its highlighting step
FlagsDownDone ==
  \/ last.act = "sync" /\ last.outcome = "done"
  \/ last.act = "flags"

\* the colour the aggregate row of id carries on the field of entity
\* column c of sheet
AggColourOf(id, sheet, c) ==
  agg.rows[LastRowOf(agg, id)].colors[IndexOf(DirectorHeaders, sheet.hdr[c])]

\* C8: when a highlighting-down propagation has completed, every row of an
\* entity store of the group whose Record ID has a row in the aggregate
\* store carries, field by field, the colours of that aggregate row.
C8_FlagsDown ==
  FlagsDownDone =>
    \A o \in Owners : \A id \in RowIds(entity[o]) \cap RowIds(agg) \cap Deals :
      \A c \in 1..Len(EntityHeaders) :
        entity[o].rows[LastRowOf(entity[o], id)].colors[c]
          = AggColourOf(id, entity[o], c)

-----------------------------------------------------------------------------
(* The re-indexing of a director row's colours, input by input *)

\* the column counts an AE tab with deal rows can have: the layout, and the
\* layout with one or two columns added by the AE
MaxAddedColumns == 2

ColumnCounts == Len(EntityHeaders)..(Len(EntityHeaders) + MaxAddedColumns)

InitReindex ==
  /\ last \in [act : {"input"},
               colors : [1..Len(DirectorHeaders) -> {White, Yellow}],
               count : ColumnCounts,
               out : {<<>>}]
  /\ remote = [d \in Deals |->
                 [owner |-> IF d = "101" THEN "ae1" ELSE "ae2",
                  name |-> "Acme", why |-> "price"]]
  /\ entity = InitialEntity
  /\ agg = InitialAgg
  /\ hub = EmptyDirectorTab
  /\ lock = NoHolder
  /\ pc = [p \in Procs |-> "idle"]
  /\ op = [p \in Procs |-> "cycle"]
  /\ idx = [p \in Procs |-> 1]
  /\ clean = FALSE
  /\ snap = NoSnap
  /\ gone = {}
  /\ envCount = 0
  /\ invCount = 0

\* syncHighlightingToMyTeam adjusts the colours of one director row for an
\* AE tab of last.count columns
Reindex ==
  /\ last.act = "input"
  /\ last' = [last EXCEPT !.act = "adjusted",
                          !.out = AdjustHighlighting(last.colors, last.count)]
  /\ UNCHANGED <<remote, entity, agg, hub, lock, pc, op, idx, clean, snap, gone,
                 envCount, invCount>>

NextReindex == Reindex

SpecReindex == InitReindex /\ [][NextReindex]_vars

\* C9: for every entity column count, the adjusted colour array gives each
\* column of the entity layout the colour of the aggregate column that
\* holds the same field (the owner slot, and only it, is gone), and gives
\* the columns right of the layout the default colour.
C9_OwnerSlotRemoved ==
  last.act = "adjusted" =>
    /\ Len(last.out) = last.count
    /\ \A c \in 1..Len(EntityHeaders) :
         last.out[c] = last.colors[IndexOf(DirectorHeaders, EntityHeaders[c])]
    /\ \A c \in (Len(EntityHeaders) + 1)..last.count : last.out[c] = White

-----------------------------------------------------------------------------
(* Properties: idempotence of the full cycle *)

\* C10: when a full cycle that met no failure and no outside change ends,
\* and the previous invocation was such a full cycle too, with no edit, no
\* remote change and no other operation since, every entity store and the
\* aggregate store hold what they held at the end of that previous cycle
\* (values, notes and colours).
C10_Idempotent ==
  [][\A p \in Procs :
       (pc[p] = "return" /\ pc'[p] = "idle" /\ op[p] = "cycle" /\ clean /\ snap.valid)
         => (entity = snap.entity /\ agg = snap.agg)]_vars

\* C10 witness: a second undisturbed full cycle in a row has just ended on
\* stores that carry a note of an AE and a highlight of the director.
C10_Witness ==
  /\ last.act = "release" /\ last.outcome = "repeat"
  /\ \E o \in Owners : "call back" \in CellValues(entity[o])
  /\ Yellow \in CellColours(agg)

-----------------------------------------------------------------------------
(* The priority sort and the cap of the director rebuild, input by input *)

MaxTeamDeals == 3    \* deals a team's fetches return together
MaxCap == 2          \* values of the cap explored (MAX_DIRECTOR_DEALS in the code)

Timestamps == {"", "2025-03-01T09:30:00Z", "2025-03-05T16:00:00Z"}

\* the deals a team's fetches can return, tagged with the owner's name; the
\* id of a deal is its position in the fetch order
TeamFetches ==
  UNION {[1..n -> [next : Timestamps, upd : Timestamps]] : n \in 1..MaxTeamDeals}

TaggedDeals(f) ==
  [i \in 1..Len(f) |->
     [deal |-> [id |-> i,
                notes_next_activity_date |-> f[i].next,
                notes_last_updated |-> f[i].upd],
      ownerName |-> "ae1"]]

InitCap ==
  /\ last \in {[act |-> "fetched", deals |-> TaggedDeals(f), cap |-> c, out |-> <<>>] :
                 f \in TeamFetches, c \in 1..MaxCap}
  /\ remote = [d \in Deals |->
                 [owner |-> IF d = "101" THEN "ae1" ELSE "ae2",
                  name |-> "Acme", why |-> "price"]]
  /\ entity = InitialEntity
  /\ agg = InitialAgg
  /\ hub = EmptyDirectorTab
  /\ lock = NoHolder
  /\ pc = [p \in Procs |-> "idle"]
  /\ op = [p \in Procs |-> "cycle"]
  /\ idx = [p \in Procs |-> 1]
  /\ clean = FALSE
  /\ snap = NoSnap
  /\ gone = {}
  /\ envCount = 0
  /\ invCount = 0

\* step 3.5 of updateDirectorConsolidatedPipeline on the fetched deals
SortAndLimit ==
  /\ last.act = "fetched"
  /\ last' = [last EXCEPT !.act = "limited",
                          !.out = sortAndLimit(last.deals, last.cap)]
  /\ UNCHANGED <<remote, entity, agg, hub, lock, pc, op, idx, clean, snap, gone,
                 envCount, invCount>>

NextCap == SortAndLimit

SpecCap == InitCap /\ [][NextCap]_vars

KeptIds == {last.out[i].deal.id : i \in 1..Len(last.out)}
DroppedIds == {i \in 1..Len(last.deals) : i \notin KeptIds}
Pending(i) == last.deals[i].deal.notes_next_activity_date # ""
NextRank(i) == DateRank(last.deals[i].deal.notes_next_activity_date)
LastRank(i) == DateRank(last.deals[i].deal.notes_last_updated)

\* the output is a selection of the fetched deals, no longer than the cap,
\* and nothing is dropped when the fetch is within the cap
CapRespected ==
  /\ Len(last.out) <= last.cap
  /\ Cardinality(KeptIds) = Len(last.out)
  /\ \A i \in 1..Len(last.out) : last.out[i] = last.deals[last.out[i].deal.id]
  /\ Len(last.deals) <= last.cap => DroppedIds = {}

\* C11 (as the code has it): the output holds at most the cap; no dropped
\* deal has a pending next activity while a kept one has none; among deals
\* with a pending next activity no dropped deal has a later next-activity
\* date than a kept one; among deals without one no dropped deal has a more
\* recent last activity than a kept one.
C11_CapByNextThenLast ==
  last.act = "limited" =>
    /\ CapRespected
    /\ \A d \in DroppedIds : \A k \in KeptIds :
         /\ ~(Pending(d) /\ ~Pending(k))
         /\ (Pending(d) /\ Pending(k)) => NextRank(d) <= NextRank(k)
         /\ (~Pending(d) /\ ~Pending(k)) => LastRank(d) <= LastRank(k)

\* C11 (as stated): the output holds at most the cap; no dropped deal has a
\* pending next activity while a kept one has none; among deals of the same
\* pending status no dropped deal has a more recent last activity than a
\* kept one.
C11_CapByLastActivity ==
  last.act = "limited" =>
    /\ CapRespected
    /\ \A d \in DroppedIds : \A k \in KeptIds :
         /\ ~(Pending(d) /\ ~Pending(k))
         /\ (Pending(d) = Pending(k)) => LastRank(d) <= LastRank(k)

\* C11 witness: more deals than the cap were fetched, a deal with a pending
\* next activity was kept and one with a pending next activity was dropped.
C11_Witness ==
  /\ last.act = "limited"
  /\ Len(last.deals) > last.cap
  /\ \E d \in DroppedIds : Pending(d)
  /\ \E k \in KeptIds : Pending(k)

-----------------------------------------------------------------------------
(* One full cycle, unit by unit, with its counters *)

\* the directors of getDirectorConfig(): the director of the AEs' team and
\* the director of a team that has no AE in the directory
DirectorSeq ==
  <<[name |-> "dir1", team |-> "Sales"], [name |-> "dir2", team |-> "Ops"]>>

\* config.salespeople.filter(p => p.team === director.team)
teamAEsOf(director) == SelectSeq(OwnerSeq, LAMBDA o : TeamOf[o] = director.team)

\* a cycle that syncs the highlighting before it rebuilds the director tabs
PhaseAfterMut(phase) ==
  CASE phase = "owners" -> "flags"
    [] phase = "flags" -> "directors"
    [] phase = "directors" -> "summary"
    [] OTHER -> "return"

\* the steps of the try block of generateAllDashboards, in program order
PhaseAfter(phase) ==
  CASE phase = "owners" -> "directors"
    [] phase = "directors" -> "flags"
    [] phase = "flags" -> "summary"
    [] OTHER -> "return"

\* a forEach whose body lets an exception of an iteration out of the loop
forEachNextMut(phase, i, n, threw) ==
  IF threw THEN "throw" ELSE IF i < n THEN phase ELSE PhaseAfter(phase)

\* a forEach whose body is a try / catch: an exception of one iteration is
\* caught inside the iteration, and the loop goes on with the next element
forEachNext(phase, i, n, threw) ==
  IF i < n THEN phase ELSE PhaseAfter(phase)

\* where updateDirectorConsolidatedPipeline can be left by an exception of
\* the platform: before sheet.clear(), or between sheet.clear() and the write
ThrowPoints == {"none", "capture", "write"}

CycleStep(act, unit, outcome, dealCount) ==
  [last EXCEPT !.act = act, !.unit = unit, !.outcome = outcome,
               !.dealCount = dealCount,
               !.log = last.log \o <<unit>>]

InitCycle ==
  /\ remote \in [Deals -> [owner : {"ae1", "ae2", NoOwner}, name : {"Acme"},
                           why : {"price"}]]
  /\ \A d \in Deals :
       remote[d].owner \in {NoOwner, IF d = "101" THEN "ae1" ELSE "ae2"}
  /\ entity = InitialEntity
  /\ agg = InitialAgg
  /\ hub = EmptyDirectorTab
  /\ lock = "p1"
  /\ pc = [p \in Procs |-> IF p = "p1" THEN "owners" ELSE "idle"]
  /\ op = [p \in Procs |-> "cycle"]
  /\ idx = [p \in Procs |-> 1]
  /\ clean = FALSE
  /\ snap = NoSnap
  /\ gone = {}
  /\ envCount = 0
  /\ invCount = 1
  /\ last = [act |-> "config", unit |-> "", outcome |-> "loaded", dealCount |-> 0,
             log |-> <<>>, processedCount |-> 0, errorCount |-> 0,
             successCount |-> 0, fetchFailed |-> {}, threw |-> {},
             message |-> <<>>]

\* one iteration of salespeople.forEach
CycleOwner ==
  /\ pc["p1"] = "owners"
  /\ LET o == OwnerSeq[idx["p1"]]
     IN \E opens \in BOOLEAN :
        \E responseOk \in (IF opens THEN BOOLEAN ELSE {TRUE}) :
          LET deals == fetchDealsForAE(o, responseOk)
              next == forEachNext("owners", idx["p1"], Len(OwnerSeq), ~opens)
          IN /\ entity' = IF opens
                          THEN [entity EXCEPT ![o] = updatePipelineReview(entity[o], deals)]
                          ELSE entity
             /\ last' = [CycleStep("owner", o,
                                   IF opens THEN "SUCCESS" ELSE "ERROR", Len(deals))
                           EXCEPT !.processedCount = IF opens THEN @ + 1 ELSE @,
                                  !.errorCount = IF opens THEN @ ELSE @ + 1,
                                  !.fetchFailed = IF opens /\ ~responseOk
                                                  THEN @ \cup {o} ELSE @,
                                  !.threw = IF opens THEN @ ELSE @ \cup {o}]
             /\ pc' = [pc EXCEPT !["p1"] = next]
             /\ idx' = [idx EXCEPT !["p1"] = IF next = "owners" THEN @ + 1 ELSE 1]
  /\ UNCHANGED <<remote, agg, hub, lock, op, clean, snap, gone, envCount, invCount>>

\* one iteration of directors.forEach in updateAllDirectorConsolidatedPipelines
CycleDirector ==
  /\ pc["p1"] = "directors"
  /\ LET director == DirectorSeq[idx["p1"]]
         teamAEs == teamAEsOf(director)
     IN \E threwAt \in (IF Len(teamAEs) = 0 THEN {"none", "capture"} ELSE ThrowPoints) :
        \E responseOk \in (IF threwAt = "capture" \/ Len(teamAEs) = 0
                           THEN {AllOk} ELSE [Owners -> BOOLEAN]) :
          LET rebuilt == updateDirectorConsolidatedPipeline(agg, entity, responseOk)
              fetched == FetchTeam(teamAEs, responseOk)
              next == forEachNext("directors", idx["p1"], Len(DirectorSeq),
                                  threwAt # "none")
          IN /\ agg' = CASE threwAt = "capture" \/ Len(teamAEs) = 0 -> agg
                         [] threwAt = "write" -> EmptyDirectorTab
                         [] OTHER -> rebuilt
             /\ last' = [CycleStep("director", director.name,
                                   IF threwAt # "none" THEN "ERROR"
                                   ELSE IF Len(teamAEs) = 0 THEN "skipped"
                                   ELSE "rebuilt", Len(fetched))
                           EXCEPT !.successCount = IF threwAt = "none" THEN @ + 1 ELSE @,
                                  !.threw = IF threwAt = "none" THEN @
                                            ELSE @ \cup {director.name}]
             /\ pc' = [pc EXCEPT !["p1"] = next]
             /\ idx' = [idx EXCEPT !["p1"] = IF next = "directors" THEN @ + 1 ELSE 1]
  /\ UNCHANGED <<remote, entity, hub, lock, op, clean, snap, gone, envCount, invCount>>

\* step 4: the highlighting of the director tabs goes down to the AE tabs
CycleFlags ==
  /\ pc["p1"] = "flags"
  /\ entity' = syncDirectorHighlightingToAESheets(agg, entity)
  /\ last' = CycleStep("flags", "flags", "done", 0)
  /\ pc' = [pc EXCEPT !["p1"] = PhaseAfter("flags")]
  /\ UNCHANGED <<remote, agg, hub, lock, op, idx, clean, snap, gone, envCount, invCount>>

\* step 5: `Complete: ${processedCount} successful, ${errorCount} errors'
CycleSummary ==
  /\ pc["p1"] = "summary"
  /\ last' = [CycleStep("summary", "summary", "Complete", 0)
                EXCEPT !.message = <<last.processedCount, last.errorCount>>]
  /\ pc' = [pc EXCEPT !["p1"] = PhaseAfter("summary")]
  /\ UNCHANGED <<remote, entity, agg, hub, lock, op, idx, clean, snap, gone,
                 envCount, invCount>>

\* the finally block and the return (or the rethrow) to the caller
CycleRelease ==
  /\ pc["p1"] \in {"return", "throw"}
  /\ lock' = IF finallyRuns(pc["p1"]) THEN NoHolder ELSE lock
  /\ pc' = [pc EXCEPT !["p1"] = "idle"]
  /\ last' = [last EXCEPT !.act = "release", !.outcome = pc["p1"]]
  /\ UNCHANGED <<remote, entity, agg, hub, op, idx, clean, snap, gone,
                 envCount, invCount>>

NextCycle ==
  CycleOwner \/ CycleDirector \/ CycleFlags \/ CycleSummary \/ CycleRelease

SpecCycle == InitCycle /\ [][NextCycle]_vars

-----------------------------------------------------------------------------
(* Properties: isolation of the units of a cycle *)

Logged == {last.log[k] : k \in 1..Len(last.log)}

\* C12: once the cycle has left the loop over the owners, every owner
\* listed after an owner whose unit raised an exception has had its unit
\* run; and once it has left the loop over the directors, every director
\* listed after a director whose rebuild raised an exception has had its
\* rebuild run.
C12_LaterUnitsRun ==
  /\ pc["p1"] # "owners" =>
       \A i \in 1..Len(OwnerSeq) : OwnerSeq[i] \in last.threw =>
         \A k \in (i+1)..Len(OwnerSeq) : OwnerSeq[k] \in Logged
  /\ pc["p1"] \notin {"owners", "directors"} =>
       \A i \in 1..Len(DirectorSeq) : DirectorSeq[i].name \in last.threw =>
         \A k \in (i+1)..Len(DirectorSeq) : DirectorSeq[k].name \in Logged

\* C12 witness: the cycle has ended after the unit of the first owner and
\* the rebuild of the first director each raised an exception, and the
\* second owner's store was refreshed with its deal all the same.
C12_Witness ==
  /\ last.act = "release"
  /\ {"ae1", "dir1"} \subseteq last.threw
  /\ {"ae2", "dir2"} \subseteq Logged
  /\ "102" \in RowIds(entity["ae2"])

-----------------------------------------------------------------------------
(* Properties: the counts of the final summary *)

\* C13: in the final summary every owner whose record fetch got a
\* non-success response is among the errors and not among the successes:
\* the successes are the owners whose unit neither threw nor had its fetch
\* refused, the errors are all the others.
C13_FetchFailureCounted ==
  last.act = "summary" =>
    LET failed == (last.threw \cap Owners) \cup last.fetchFailed
    IN /\ last.message[1] = Cardinality(Owners \ failed)
       /\ last.message[2] = Cardinality(failed)

-----------------------------------------------------------------------------
(* Properties: the busy outcome *)

\* the title of the toast an invocation of operation o shows when it ends
\* by not getting the lock ("busy"), by an exception ("throw") or normally
toastTitle(o, how) ==
  CASE how = "busy" -> IF o = "cycle" THEN "Already Running" ELSE "Busy"
    [] how = "throw" -> "Error"
    [] OTHER -> IF o = "cycle" THEN "Dashboard Generation" ELSE "Success"

\* what the caller gets back: generateAllDashboards rethrows an exception,
\* the quick operations catch theirs; a busy invocation returns normally
rethrows(o, how) == o = "cycle" /\ how = "throw"

\* C14: an invocation that does not get the lock within its wait changes
\* no store and not the lock, ends at once with the busy outcome, whose
\* toast differs from the toast of every execution failure and which is
\* never an exception; and no body ever runs except in an invocation the
\* caller has started (nothing is queued for later).
C14_BusyOutcome ==
  [][\A p \in Procs :
       /\ (pc[p] = "trylock" /\ pc'[p] # "trylock" /\ lock # NoHolder) =>
            /\ entity' = entity /\ agg' = agg /\ hub' = hub /\ lock' = lock
            /\ pc'[p] = "idle"
            /\ last'.outcome = "busy"
            /\ \A o \in Ops : toastTitle(op[p], "busy") # toastTitle(o, "throw")
            /\ ~rethrows(op[p], "busy")
       /\ (pc[p] = "idle" /\ pc'[p] # "idle") =>
            (pc'[p] = "trylock" /\ invCount' = invCount + 1)]_vars

\* C14 witness: an invocation has just been turned away by tryLock while a
\* full cycle that holds the lock was rebuilding the stores.
C14_Witness ==
  /\ last.act = "trylock" /\ last.outcome = "busy"
  /\ \E q \in Procs : lock = q /\ op[q] = "cycle" /\ pc[q] \in {"owners", "directors"}

-----------------------------------------------------------------------------
(* The record fetch, request by request *)

MaxPages == 3        \* pages the search API splits an owner's deals into
MaxPageSize == 2     \* deals on one page (DEFAULT_BATCH_SIZE in the code)
MaxResultsCap == 3   \* values of the safety cap explored (MAX_RESULTS in the code)

FetchFunctions == {"fetchDealsByOwner", "fetchDealsForAE"}

\* deal number n as the search API returns it; the request filters on
\* ability_to_pay >= 3 and warm_prospects >= 3, so every result has both
SearchResult(n) ==
  [id |-> n, ability_to_pay |-> 3 + (n % 3), warm_prospects |-> 5 - (n % 3)]

RECURSIVE SumUpTo(_, _)
SumUpTo(sizes, k) == IF k = 0 THEN 0 ELSE sizes[k] + SumUpTo(sizes, k - 1)

\* the pages of a result list that the server cut into pieces of these sizes
PagesOf(sizes) ==
  [k \in 1..Len(sizes) |->
     [i \in 1..sizes[k] |-> SearchResult(SumUpTo(sizes, k - 1) + i)]]

PageSplits == UNION {[1..n -> 0..MaxPageSize] : n \in 1..MaxPages}

\* the response to a search request: a status code and, with 200, the page
\* and the cursor paging.next.after (0 stands for its absence); the request
\* without `after' is the request for the first page
SearchResponse(pages, after, failAt) ==
  LET k == IF after = 0 THEN 1 ELSE after
  IN IF k = failAt THEN [statusCode |-> 429, page |-> k]
     ELSE [statusCode |-> 200, page |-> k, results |-> pages[k],
           after |-> IF k < Len(pages) THEN k + 1 ELSE 0]

\* extractNumericProperty(deal, ...) >= 3 on both GTC properties
gtcFilter(deals) ==
  SelectSeq(deals, LAMBDA d : d.ability_to_pay >= 3 /\ d.warm_prospects >= 3)

\* a fetch that asks again after a non-success response
onPageErrorMut(fn) == "running"

\* what a non-200 response does to the call: fetchDealsPage throws;
\* fetchDealsByOwner logs and rethrows, fetchDealsForAE logs and returns []
onPageError(fn) == IF fn = "fetchDealsByOwner" THEN "failed" ELSE "returned"

\* `if (allDeals.length >= MAX_RESULTS) break; ... while (after)' in
\* fetchDealsByOwner; fetchDealsForAE sends one request and has no loop
morePages(fn, after, count, maxResults) ==
  fn = "fetchDealsByOwner" /\ count < maxResults /\ after # 0

InitFetch ==
  /\ last \in {[act |-> "call", fn |-> f, pages |-> PagesOf(sz), failAt |-> x,
                cap |-> c, after |-> 0, allDeals |-> <<>>, requests |-> <<>>,
                result |-> "running", out |-> <<>>] :
                 f \in FetchFunctions, sz \in PageSplits,
                 x \in 0..MaxPages, c \in 1..MaxResultsCap}
  /\ remote = [d \in Deals |->
                 [owner |-> IF d = "101" THEN "ae1" ELSE "ae2",
                  name |-> "Acme", why |-> "price"]]
  /\ entity = InitialEntity
  /\ agg = InitialAgg
  /\ hub = EmptyDirectorTab
  /\ lock = NoHolder
  /\ pc = [p \in Procs |-> "idle"]
  /\ op = [p \in Procs |-> "cycle"]
  /\ idx = [p \in Procs |-> 1]
  /\ clean = FALSE
  /\ snap = NoSnap
  /\ gone = {}
  /\ envCount = 0
  /\ invCount = 0

\* one search request of the call and what the call does with the response
RequestPage ==
  /\ last.result = "running"
  /\ LET response == SearchResponse(last.pages, last.after, last.failAt)
         requests == last.requests \o <<response.page>>
     IN IF response.statusCode # 200
        THEN last' = [last EXCEPT !.act = "request", !.requests = requests,
                                  !.result = onPageError(last.fn), !.out = <<>>]
        ELSE LET allDeals == last.allDeals \o response.results
                 more == morePages(last.fn, response.after, Len(allDeals), last.cap)
             IN last' = [last EXCEPT
                           !.act = "request", !.requests = requests,
                           !.after = response.after,
                           !.allDeals = allDeals,
                           !.result = IF more THEN "running" ELSE "returned",
                           !.out = IF more THEN <<>>
                                   ELSE IF last.fn = "fetchDealsByOwner"
                                        THEN gtcFilter(allDeals) ELSE allDeals]
  /\ UNCHANGED <<remote, entity, agg, hub, lock, pc, op, idx, clean, snap, gone,
                 envCount, invCount>>

NextFetch == RequestPage

SpecFetch == InitFetch /\ [][NextFetch]_vars

\* the deals of the pages 1..k
RECURSIVE Flatten(_, _)
Flatten(pages, k) == IF k = 0 THEN <<>> ELSE Flatten(pages, k - 1) \o pages[k]

\* C15: a fetch that returns has requested the pages 1..k in order, each
\* once, where k is the last page (no further cursor) or the first page at
\* which the safety cap is reached, and it returns the deals of all of them.
C15_AllPagesFetched ==
  (last.result = "returned" /\ last.failAt \notin {last.requests[i] : i \in 1..Len(last.requests)}) =>
    LET k == Len(last.requests)
    IN /\ \A i \in 1..k : last.requests[i] = i
       /\ k = Len(last.pages) \/ Len(Flatten(last.pages, k)) >= last.cap
       /\ \A j \in 1..(k - 1) : Len(Flatten(last.pages, j)) < last.cap
       /\ last.out = Flatten(last.pages, k)

\* the same for the calls of fetchDealsByOwner alone
C15_ByOwnerOnly ==
  last.fn = "fetchDealsByOwner" => C15_AllPagesFetched


\* the number of requests the call has sent for page k
Attempts(k) == Cardinality({i \in 1..Len(last.requests) : last.requests[i] = k})

-----------------------------------------------------------------------------
(* Properties: colours across a refresh *)

ColoursOf(sheet, id) == sheet.rows[LastRowOf(sheet, id)].colors

\* the Record IDs with a row in the store both before and after a refresh
StayingIds(before, after) == RowIds(before) \cap RowIds(after) \cap Deals

\* the rebuild of the director tab gives every Record ID that had a row
\* before it the colours that row had
DirectorColoursRestored ==
  last'.act = "directors" =>
    \A id \in StayingIds(agg, agg') : ColoursOf(agg', id) = ColoursOf(agg, id)

\* the refresh of an owner's tab gives every Record ID that had a row
\* before it the colours that row had
EntityColoursRestored ==
  (last'.act = "owner" /\ last'.outcome # "error") =>
    LET o == last'.owner
    IN \A id \in StayingIds(entity[o], entity'[o]) :
         ColoursOf(entity'[o], id) = ColoursOf(entity[o], id)

\* C17: a refresh of a store, the refresh of an owner's tab as well as the
\* rebuild of the director tab, leaves every row whose Record ID had a row
\* (and so colours in the capture) before it with the colours it had.
C17_ColoursRestored ==
  [][DirectorColoursRestored /\ EntityColoursRestored]_vars

\* the part of C17 that is about the director tab
C17_DirectorOnly == [][DirectorColoursRestored]_vars

-----------------------------------------------------------------------------
(* Captured colours on a store whose column count has drifted *)

MaxDrift == 2        \* columns added to or removed from a store since its capture

StoreKinds == {"entity", "aggregate"}

\* the column count a refresh writes: dataArray[0].length
LayoutWidth(kind) ==
  IF kind = "entity" THEN Len(EntityHeaders) ELSE Len(DirectorHeaders)

\* applyPreservedHighlighting of the Pipeline Review component: the captured
\* colours of a Deal ID are cut or padded to the current column count and
\* set on its row (the call of it in applyPipelineFormatting is commented out)
applyPreservedHighlighting(sheet, preservedMap) ==
  IF DOMAIN preservedMap = {} THEN sheet
  ELSE LET currentColCount == Len(EntityHeaders)
       IN [sheet EXCEPT !.rows =
             [i \in 1..Len(sheet.rows) |->
                LET id == Cell(sheet.rows[i], 1)
                IN IF id \in DOMAIN preservedMap
                   THEN [sheet.rows[i] EXCEPT !.colors =
                           PadTo(PadTo(Take(preservedMap[id].colors, currentColCount),
                                       currentColCount, White),
                                 Len(sheet.rows[i].colors), White)]
                   ELSE sheet.rows[i]]]

\* a freshly written store of the kind with one deal row
FreshlyWritten(kind) ==
  IF kind = "entity"
  THEN writeDataToSheet(FreshTab, <<Fill(Len(EntityHeaders), "") >>)
  ELSE writeConsolidatedPipelineData(<<Fill(Len(DirectorHeaders), "")>>)

DriftRow(kind) ==
  [FreshlyWritten(kind) EXCEPT !.rows[1].vals[1] = "101"]

InitDrift ==
  /\ last \in {[act |-> "captured", kind |-> k, colors |-> c, threw |-> FALSE,
                out |-> <<>>] :
                 k \in StoreKinds,
                 c \in UNION {[1..n -> {White, Yellow}] :
                                n \in (Len(EntityHeaders) - MaxDrift)
                                        ..(Len(DirectorHeaders) + MaxDrift)}}
  /\ Len(last.colors) \in (LayoutWidth(last.kind) - MaxDrift)
                            ..(LayoutWidth(last.kind) + MaxDrift)
  /\ remote = [d \in Deals |->
                 [owner |-> IF d = "101" THEN "ae1" ELSE "ae2",
                  name |-> "Acme", why |-> "price"]]
  /\ entity = InitialEntity
  /\ agg = InitialAgg
  /\ hub = EmptyDirectorTab
  /\ lock = NoHolder
  /\ pc = [p \in Procs |-> "idle"]
  /\ op = [p \in Procs |-> "cycle"]
  /\ idx = [p \in Procs |-> 1]
  /\ clean = FALSE
  /\ snap = NoSnap
  /\ gone = {}
  /\ envCount = 0
  /\ invCount = 0

\* the store's restore function puts the captured colours on the row
ApplyCaptured ==
  /\ last.act = "captured"
  /\ LET sheet == DriftRow(last.kind)
         restored ==
           IF last.kind = "entity"
           THEN applyPreservedHighlighting(sheet,
                  [id \in {"101"} |-> [notes |-> "", colors |-> last.colors]])
           ELSE restoreDirectorHighlighting(sheet, [id \in {"101"} |-> last.colors])
         threw ==
           last.kind = "aggregate"
             /\ RestoreThrowsAt(sheet, [id \in {"101"} |-> last.colors]) # {}
     IN last' = [last EXCEPT !.act = "applied", !.threw = threw,
                             !.out = restored.rows[1].colors]
  /\ UNCHANGED <<remote, entity, agg, hub, lock, pc, op, idx, clean, snap, gone,
                 envCount, invCount>>

NextDrift == ApplyCaptured

SpecDrift == InitDrift /\ [][NextDrift]_vars

\* C18: applying a captured colour array to a row of a store whose column
\* count differs from the array's length by up to MaxDrift, either way,
\* raises no error; the row gets the captured colours in the columns both
\* have and the neutral colour in the columns beyond the captured length.
C18_DriftTolerated ==
  last.act = "applied" =>
    LET n == Len(last.colors)
        w == LayoutWidth(last.kind)
    IN /\ ~last.threw
       /\ Len(last.out) = w
       /\ \A c \in 1..w : last.out[c] = IF c <= n THEN last.colors[c] ELSE White

\* the same for the restore function of the Pipeline Review component alone
C18_EntityOnly == last.kind = "entity" => C18_DriftTolerated

-----------------------------------------------------------------------------
(* Properties: the rendering of an empty record set *)

\* the store shows a message of its own: a row whose first cell holds a
\* text that is not a Record ID
ShowsPlaceholder(sheet) ==
  \E i \in 1..Len(sheet.rows) : Cell(sheet.rows[i], 1) \notin Deals \cup {""}

\* the refresh of an owner's tab with an empty record set writes the
\* placeholder, and the cycle goes on
EntityPlaceholder ==
  (last.act = "owner" /\ last.outcome = "SUCCESS" /\ last.dealCount = 0) =>
    /\ entity[last.unit] = Placeholder
    /\ ShowsPlaceholder(entity[last.unit])
    /\ pc["p1"] \in {"owners", "directors"}

\* the rebuild of a director tab with an empty record set writes a
\* placeholder, and the cycle goes on
AggregatePlaceholder ==
  (last.act = "director" /\ last.outcome = "rebuilt" /\ last.dealCount = 0) =>
    /\ ShowsPlaceholder(agg)
    /\ pc["p1"] \in {"directors", "flags"}

\* C19: when the record set to be written is empty, the refresh of an
\* owner's tab and the rebuild of a director tab each leave an explicit
\* placeholder in the store, and the cycle goes on to its next unit.
C19_EmptyPlaceholder == EntityPlaceholder /\ AggregatePlaceholder

\* the part of C19 that is about the owners' tabs
C19_EntityOnly == EntityPlaceholder

-----------------------------------------------------------------------------
(* Properties: the order of the units of a cycle *)

OwnerUnits == {OwnerSeq[i] : i \in 1..Len(OwnerSeq)}
DirectorUnits == {DirectorSeq[i].name : i \in 1..Len(DirectorSeq)}
LoggedBefore(k) == {last.log[j] : j \in 1..(k - 1)}

\* C20: in a full cycle every owner's unit has ended before the rebuild of
\* any director tab starts, and the rebuild of every director tab has
\* ended before the highlighting is synced down.
C20_PhaseOrder ==
  \A k \in 1..Len(last.log) :
    /\ last.log[k] \in DirectorUnits => OwnerUnits \subseteq LoggedBefore(k)
    /\ last.log[k] = "flags" => DirectorUnits \subseteq LoggedBefore(k)

\* C20 witness: a cycle has ended after the units of both owners, then the
\* rebuilds of both directors, then the highlighting sync.
C20_Witness ==
  /\ last.act = "release"
  /\ last.log = <<"ae1", "ae2", "dir1", "dir2", "flags", "summary">>

-----------------------------------------------------------------------------
(* Refreshes of the stores while the CRM and the directory change *)

MaxRefreshEdits == 3     \* changes between the refreshes explored
MaxRefreshCap == 1       \* the small cap of the director tab explored

RefreshNames == {"Acme", "Acme Ltd"}
Teams == {"Sales", "Ops"}

\* config.salespeople.filter(p => p.team === director.team) for the
\* directory that assigns the team teams[o] to the AE o
teamAEsIn(teams, team) == SelectSeq(OwnerSeq, LAMBDA o : teams[o] = team)

RefreshStep(act, unit, outcome) ==
  [last EXCEPT !.act = act, !.unit = unit, !.outcome = outcome]

RefreshEdit(act, unit) ==
  /\ last.edits < MaxRefreshEdits
  /\ last' = [RefreshStep(act, unit, "") EXCEPT !.edits = @ + 1]

\* the stores after provisioning and one undisturbed full cycle
InitRefresh ==
  /\ remote \in [Deals -> [owner : Owners \cup {NoOwner}, name : {"Acme"},
                           why : {"price"}]]
  /\ \A d \in Deals :
       remote[d].owner \in {NoOwner, IF d = "101" THEN "ae1" ELSE "ae2"}
  /\ entity = InitialEntity
  /\ \E cap \in {MaxRefreshCap, MAX_DIRECTOR_DEALS} :
       /\ last = [act |-> "init", unit |-> "", outcome |-> "",
                  teams |-> TeamOf, cap |-> cap, edits |-> 0, kept |-> {}]
       /\ agg = updateDirectorConsolidatedPipelineFor(EmptyDirectorTab, InitialEntity,
                                                      AllOk, teamAEsStrict, cap)
  /\ hub = EmptyDirectorTab
  /\ lock = NoHolder
  /\ pc = [p \in Procs |-> "idle"]
  /\ op = [p \in Procs |-> "cycle"]
  /\ idx = [p \in Procs |-> 1]
  /\ clean = FALSE
  /\ snap = NoSnap
  /\ gone = {}
  /\ envCount = 0
  /\ invCount = 0

\* a deal is renamed in the CRM
RefreshRename ==
  /\ \E d \in Deals : \E n \in RefreshNames :
       /\ remote[d].name # n
       /\ remote' = [remote EXCEPT ![d].name = n]
  /\ RefreshEdit("rename", "")
  /\ UNCHANGED <<entity, agg, hub, lock, pc, op, idx, clean, snap, gone,
                 envCount, invCount>>

\* a deal leaves the filter of its owner or comes back into it
RefreshMove ==
  /\ \E d \in Deals :
       remote' = [remote EXCEPT ![d].owner =
                    IF remote[d].owner # NoOwner THEN NoOwner
                    ELSE IF d = "101" THEN "ae1" ELSE "ae2"]
  /\ RefreshEdit("move", "")
  /\ UNCHANGED <<entity, agg, hub, lock, pc, op, idx, clean, snap, gone,
                 envCount, invCount>>

\* the Team cell of an AE is changed in the directory
RefreshDirectory ==
  /\ \E o \in Owners : \E t \in Teams :
       /\ last.teams[o] # t
       /\ last.edits < MaxRefreshEdits
       /\ last' = [RefreshStep("directory", o, "") EXCEPT
                     !.edits = @ + 1, !.teams = [last.teams EXCEPT ![o] = t]]
  /\ UNCHANGED <<remote, entity, agg, hub, lock, pc, op, idx, clean, snap, gone,
                 envCount, invCount>>

\* the director colours the Notes cell of a row of the consolidated tab
RefreshColour ==
  /\ last.edits < MaxRefreshEdits
  /\ \E r \in 1..Len(agg.rows) : \E c \in HighlightColumns :
       /\ agg.rows[r].colors[c] # Yellow
       /\ agg' = [agg EXCEPT !.rows[r].colors[c] = Yellow]
       /\ last' = [RefreshStep("colour", "", "") EXCEPT
                     !.edits = @ + 1,
                     !.kept = @ \cup ({Cell(agg.rows[r], 1)} \cap Deals)]
  /\ UNCHANGED <<remote, entity, hub, lock, pc, op, idx, clean, snap, gone,
                 envCount, invCount>>

\* updatePipelineReview on the tab of one AE
RefreshEntity ==
  /\ \E o \in Owners : \E responseOk \in BOOLEAN :
       LET deals == fetchDealsForAE(o, responseOk)
       IN /\ entity' = [entity EXCEPT ![o] = updatePipelineReview(entity[o], deals)]
          /\ last' = RefreshStep("entity", o,
                                 IF ~responseOk THEN "fetch failed"
                                 ELSE IF Len(deals) = 0 THEN "placeholder"
                                 ELSE "written")
  /\ UNCHANGED <<remote, agg, hub, lock, pc, op, idx, clean, snap, gone,
                 envCount, invCount>>

\* the Deal IDs in the fetch results of a rebuild, before the cap
FetchedIds(teamAEs, responseOk) ==
  {FetchTeam(teamAEs, responseOk)[i].deal.id :
     i \in 1..Len(FetchTeam(teamAEs, responseOk))}

\* updateDirectorConsolidatedPipeline on the tab of the Sales director;
\* last.kept are the Deal IDs whose row the director has coloured and that
\* were in the fetch results of every rebuild since
RefreshAggregate ==
  /\ \E responseOk \in [Owners -> BOOLEAN] :
       LET teamAEs == teamAEsIn(last.teams, DirectorTeam)
       IN /\ agg' = updateDirectorConsolidatedPipelineFor(agg, entity, responseOk,
                                                          teamAEs, last.cap)
          /\ last' = [RefreshStep("aggregate", "dir1",
                                  IF Len(teamAEs) = 0 THEN "skipped"
                                  ELSE IF responseOk = AllOk THEN "written"
                                  ELSE "fetch failed")
                        EXCEPT !.kept = IF Len(teamAEs) = 0 THEN @
                                        ELSE @ \cap FetchedIds(teamAEs, responseOk)]
  /\ UNCHANGED <<remote, entity, hub, lock, pc, op, idx, clean, snap, gone,
                 envCount, invCount>>

NextRefresh ==
  \/ RefreshRename
  \/ RefreshMove
  \/ RefreshDirectory
  \/ RefreshColour
  \/ RefreshEntity
  \/ RefreshAggregate

SpecRefresh == InitRefresh /\ [][NextRefresh]_vars

-----------------------------------------------------------------------------
(* Properties: a refresh replaces the Record-derived cells *)

\* the columns a refresh fills from the fetched deal (all but Notes)
EntityRecordColumns == {c \in 1..Len(EntityHeaders) : EntityHeaders[c] # "Notes"}
DirectorRecordColumns == {c \in 1..Len(DirectorHeaders) : DirectorHeaders[c] # "Notes"}

\* every deal row of the AE tab shows what the CRM holds for its Deal ID
EntityFresh(sheet) ==
  \A i \in 1..Len(sheet.rows) :
    LET id == Cell(sheet.rows[i], 1)
    IN id \in Deals =>
         \A c \in EntityRecordColumns :
           Cell(sheet.rows[i], c) = PipelineRow(id, EmptyMap)[c]

\* every deal row of the director tab shows what the CRM holds for its Deal ID
AggregateFresh(sheet) ==
  \A i \in 1..Len(sheet.rows) :
    LET id == Cell(sheet.rows[i], 1)
    IN id \in Deals =>
         \A c \in DirectorRecordColumns :
           Cell(sheet.rows[i], c) =
             ConsolidatedRow([deal |-> DealOf(id), ownerName |-> remote[id].owner],
                             EmptyMap)[c]

\* C21: after the refresh of a store, every Record-derived cell of every
\* deal row of that store equals the value the CRM holds for the row's
\* Deal ID; nothing an earlier refresh wrote is left.
C21_FullyReplaced ==
  /\ last.act = "entity" => EntityFresh(entity[last.unit])
  /\ last.act = "aggregate" => AggregateFresh(agg)

\* the same for the refreshes that reach their write: every refresh of an AE
\* tab, and the rebuild of the tab of a director whose team has an AE
C21_WrittenStoresFresh ==
  /\ last.act = "entity" => EntityFresh(entity[last.unit])
  /\ (last.act = "aggregate" /\ last.outcome # "skipped") => AggregateFresh(agg)

\* a rebuild has just written rows of a renamed deal
C21_WrittenWitness ==
  /\ last.act = "aggregate" /\ last.outcome = "written"
  /\ \E i \in 1..Len(agg.rows) : Cell(agg.rows[i], 2) = "Acme Ltd"

-----------------------------------------------------------------------------
(* Properties: what the captures index *)

\* the capture a refresh of the AE tab of o takes keys only Deal IDs
EntityCaptureKeyed(o) ==
  (last'.act = "entity" /\ last'.unit = o)
    => DOMAIN capturePreservedData(entity[o]) \subseteq Deals

\* the capture a rebuild of the director tab takes keys only Deal IDs
DirectorCaptureKeyed ==
  last'.act = "aggregate" => DOMAIN captureDirectorHighlighting(agg) \subseteq Deals

\* C25: the map a refresh captures from a store before it rewrites the
\* store has an entry only for rows whose column A holds a Deal ID: the
\* header row, empty rows and the rows of the "no active deals" message an
\* earlier refresh wrote are no entries of it.
C25_CaptureKeyedByRecord ==
  [][(\A o \in Owners : EntityCaptureKeyed(o)) /\ DirectorCaptureKeyed]_vars

\* the same for the director tab alone, which never shows a message
C25_DirectorOnly == [][DirectorCaptureKeyed]_vars

-----------------------------------------------------------------------------
(* fetchDealsByOwner and fetchEnrollmentDeals against an arbitrary server *)

MaxServePage == 1     \* results on one page of the arbitrary server
MaxServeCap == 2      \* values of the safety cap explored (MAX_RESULTS)

PagedFunctions == {"fetchDealsByOwner", "fetchEnrollmentDeals"}
NoOwnerId == ""                \* null: `!ownerId' is true
NoCursor == ""                 \* no paging.next: `while (after)' ends
Cursors == {"c1", "c2"}
Addresses == {"ann@x.io", "bob@x.io"}

\* what GET /crm/v3/owners may do: list the owners, list none, be refused,
\* or not answer at all (UrlFetchApp.fetch throws)
OwnersResponses ==
  {[threw |-> FALSE, statusCode |-> 200,
    results |-> <<[email |-> "Ann@x.io", id |-> "77"]>>],
   [threw |-> FALSE, statusCode |-> 200, results |-> <<>>],
   [threw |-> FALSE, statusCode |-> 403, results |-> <<>>],
   [threw |-> TRUE, statusCode |-> 0, results |-> <<>>]}

\* the owners of the list whose address is the given one, case ignored
OwnersFound(email, response) ==
  SelectSeq(response.results,
            LAMBDA owner : owner.email # ""
                           /\ toLowerCase(owner.email) = toLowerCase(email))

\* getOwnerIdByEmail: the id of the first owner found, null when the
\* request threw, was refused or listed no such owner
getOwnerIdByEmail(email, response) ==
  IF response.threw THEN NoOwnerId
  ELSE IF response.statusCode # 200 THEN NoOwnerId
  ELSE IF Len(OwnersFound(email, response)) > 0
       THEN OwnersFound(email, response)[1].id
       ELSE NoOwnerId

\* a fetch that raises an error for an owner it cannot resolve
onUnresolvedMut(fn) == "failed"

\* `if (!ownerId) { Logger.log(...); return []; }'
onUnresolved(fn) == "returned"

\* `if (allDeals.length >= MAX_RESULTS) break; ... while (after)'
loopGoesOn(after, count, maxResults) == count < maxResults /\ after # NoCursor

InitServe ==
  /\ last \in {[act |-> "call", fn |-> f, hubspotUserId |-> u, email |-> e,
                owners |-> r, cap |-> c, ownerId |-> NoOwnerId,
                lookedUp |-> FALSE, searched |-> FALSE,
                after |-> NoCursor, count |-> 0, result |-> "resolving"] :
                 f \in PagedFunctions, u \in {"", "77"}, e \in Addresses,
                 r \in OwnersResponses, c \in 1..MaxServeCap}
  /\ remote = [d \in Deals |->
                 [owner |-> IF d = "101" THEN "ae1" ELSE "ae2",
                  name |-> "Acme", why |-> "price"]]
  /\ entity = InitialEntity
  /\ agg = InitialAgg
  /\ hub = EmptyDirectorTab
  /\ lock = NoHolder
  /\ pc = [p \in Procs |-> "idle"]
  /\ op = [p \in Procs |-> "cycle"]
  /\ idx = [p \in Procs |-> 1]
  /\ clean = FALSE
  /\ snap = NoSnap
  /\ gone = {}
  /\ envCount = 0
  /\ invCount = 0

\* the owner resolution at the head of the call
ResolveOwner ==
  /\ last.result = "resolving"
  /\ LET given == last.hubspotUserId # ""
         ownerId == IF given THEN last.hubspotUserId
                    ELSE getOwnerIdByEmail(last.email, last.owners)
     IN last' = [last EXCEPT !.act = "resolve",
                             !.lookedUp = ~given,
                             !.ownerId = ownerId,
                             !.result = IF ownerId = NoOwnerId
                                        THEN onUnresolved(last.fn)
                                        ELSE "running"]
  /\ UNCHANGED <<remote, entity, agg, hub, lock, pc, op, idx, clean, snap, gone,
                 envCount, invCount>>

\* one pass of the do ... while loop: the server answers the search request
\* with a status and, with 200, any page and any cursor
ServePage ==
  /\ last.result = "running"
  /\ \E statusCode \in {200, 429} :
     \E n \in 0..MaxServePage :
     \E after \in Cursors \cup {NoCursor} :
       IF statusCode # 200
       THEN last' = [last EXCEPT !.act = "request", !.searched = TRUE,
                                 !.result = "failed"]
       ELSE last' = [last EXCEPT
                       !.act = "request", !.searched = TRUE,
                       !.count = last.count + n,
                       !.after = after,
                       !.result = IF loopGoesOn(after, last.count + n, last.cap)
                                  THEN "running" ELSE "returned"]
  /\ UNCHANGED <<remote, entity, agg, hub, lock, pc, op, idx, clean, snap, gone,
                 envCount, invCount>>

NextServe == ResolveOwner \/ ServePage

SpecServe == InitServe /\ [][NextServe]_vars

\* the call goes on as long as it has a step to take
SpecServeFair == SpecServe /\ WF_vars(NextServe)

-----------------------------------------------------------------------------
(* Properties: owner resolution and termination of the fetch *)

\* the owners list was received and names the address, case ignored
Listed(email, response) ==
  /\ ~response.threw /\ response.statusCode = 200
  /\ \E i \in 1..Len(response.results) :
       toLowerCase(response.results[i].email) = toLowerCase(email)

\* C22: a call that was given no owner identifier and whose lookup by
\* address found no owner has returned the empty record set: it has not
\* failed and it has sent no search request.
C22_UnresolvedReturnsEmpty ==
  (last.act # "call" /\ last.hubspotUserId = "" /\ ~Listed(last.email, last.owners))
    => /\ last.result = "returned"
       /\ last.count = 0
       /\ ~last.searched

\* C22 witness: the lookup got the owners list, the address is not on it,
\* and the call has returned.
C22_Witness ==
  /\ last.act = "resolve" /\ last.lookedUp
  /\ last.owners.statusCode = 200 /\ Len(last.owners.results) > 0
  /\ ~Listed(last.email, last.owners)
  /\ last.result = "returned"

\* C27: every call of a paged fetch comes to an end, by returning or by
\* failing, whatever the server answers.
C27_FetchEnds == <>(last.result \in {"returned", "failed"})

\* a call whose every page came with a cursor and without a result
C27_EmptyPagesWitness ==
  /\ last.act = "request" /\ last.result = "running"
  /\ last.count = 0 /\ last.after \in Cursors

-----------------------------------------------------------------------------
(* The Enrollment Tracker tab: updateEnrollmentTracker and its helpers *)

MaxMonth == 3         \* months the model lets pass
MaxWon == 1           \* deals won per month and kind

Months == 1..MaxMonth

\* a row of the tab, by what its first cell holds: the text A1 has after
\* provisioning, the tier progress line, an empty cell, the month header
\* `<MONTH> <year> - ENROLLMENTS (Total: n)', the month header
\* `<MONTH> <year> - EASY STARTS (Total: n)', the column headers, a deal
\* name, `No enrollments this month', `No easy starts this month'
EnrollRow(kind, month) == [kind |-> kind, month |-> month]
BlankRow == EnrollRow("blank", 0)

\* enrollmentTab.getRange('A1').setValue('Enrollment Tracker - Will be ...')
FreshEnrollmentTab == <<EnrollRow("fresh", 0)>>

\* firstCell.includes('ENROLLMENTS') && !firstCell.includes('EASY STARTS'),
\* with the '-' and without 'No enrollments'; includes is case sensitive
isEnrollmentsHeader(row) == row.kind = "enrollments"

\* cell.includes('EASY STARTS')
isEasyStartsHeader(row) == row.kind = "easy"

\* !nextCell || nextCell === ''
isEmptyCell(row) == row.kind = "blank"

\* the least element of a non-empty set of row numbers
FirstOf(S) == CHOOSE x \in S : \A y \in S : x <= y

\* captureHistoricalData: the rows from the first non-empty row after the
\* Easy Starts section that follows the second ENROLLMENTS header
captureHistoricalData(allData) ==
  LET n == Len(allData)
      heads == {i \in 1..n : isEnrollmentsHeader(allData[i])}
      seconds == {i \in heads : Cardinality({h \in heads : h < i}) = 1}
  IN IF seconds = {} THEN <<>>
     ELSE LET i == FirstOf(seconds)
              easies == {j \in (i+1)..n : isEasyStartsHeader(allData[j])}
          IN IF easies = {} THEN <<>>
             ELSE LET j == FirstOf(easies)
                      ends == {k \in (j+1)..(n-1) :
                                 /\ isEmptyCell(allData[k])
                                 /\ ~isEmptyCell(allData[k+1])}
                  IN IF ends = {} THEN <<>>
                     ELSE SubSeq(allData, FirstOf(ends) + 1, n)

\* the deals the CRM holds for a month: won[m].regular and won[m].easy
\* fetchEnrollmentDeals filters closedate >= first day of last month, and
\* groupDealsByMonth lists the months that have a deal, newest first
groupDealsByMonth(won, now) ==
  LET has(m) == m >= now - 1 /\ m <= now /\ won[m].regular + won[m].easy > 0
  IN IF has(now) /\ now > 1 /\ has(now - 1) THEN <<now, now - 1>>
     ELSE IF has(now) THEN <<now>>
     ELSE IF now > 1 /\ has(now - 1) THEN <<now - 1>>
     ELSE <<>>

\* the rows buildEnrollmentDataArray writes for one month
MonthSection(won, m) ==
  <<EnrollRow("enrollments", m), EnrollRow("columns", m)>>
    \o (IF won[m].regular > 0
        THEN [i \in 1..won[m].regular |-> EnrollRow("deal", m)]
        ELSE <<EnrollRow("none", m)>>)
    \o <<BlankRow, EnrollRow("easy", m), EnrollRow("columns", m)>>
    \o (IF won[m].easy > 0
        THEN [i \in 1..won[m].easy |-> EnrollRow("deal", m)]
        ELSE <<EnrollRow("noeasy", m)>>)
    \o <<BlankRow, BlankRow>>

RECURSIVE MonthSections(_, _)
MonthSections(won, months) ==
  IF Len(months) = 0 THEN <<>>
  ELSE MonthSection(won, months[1]) \o MonthSections(won, Tail(months))

\* buildEnrollmentDataArray: tier line, fetched months, preserved rows
buildEnrollmentDataArray(won, months, historicalData, tierProgress) ==
  (IF tierProgress THEN <<EnrollRow("tier", 0), BlankRow>> ELSE <<>>)
    \o MonthSections(won, months)
    \o historicalData

\* the rows getLastRow() counts: empty rows at the end are not on the sheet
RECURSIVE TrimBlank(_)
TrimBlank(rows) ==
  IF Len(rows) = 0 THEN rows
  ELSE IF isEmptyCell(rows[Len(rows)]) THEN TrimBlank(SubSeq(rows, 1, Len(rows) - 1))
  ELSE rows

\* the body of updateEnrollmentTracker: capture, fetch, group, build,
\* sheet.clear(), write; a fetch that throws leaves the tab as it was
updateEnrollmentTracker(sheet, won, now, tierProgress, responseOk) ==
  LET historicalData == captureHistoricalData(sheet)
      groupedData == groupDealsByMonth(won, now)
  IN IF ~responseOk THEN sheet
     ELSE TrimBlank(buildEnrollmentDataArray(won, groupedData, historicalData,
                                             tierProgress))

InitEnroll ==
  /\ \E role \in BOOLEAN :
       last = [act |-> "init", now |-> 1, role |-> role,
               won |-> [m \in Months |-> [regular |-> 0, easy |-> 0]],
               sheet |-> FreshEnrollmentTab, outcome |-> ""]
  /\ remote = [d \in Deals |->
                 [owner |-> IF d = "101" THEN "ae1" ELSE "ae2",
                  name |-> "Acme", why |-> "price"]]
  /\ entity = InitialEntity
  /\ agg = InitialAgg
  /\ hub = EmptyDirectorTab
  /\ lock = NoHolder
  /\ pc = [p \in Procs |-> "idle"]
  /\ op = [p \in Procs |-> "cycle"]
  /\ idx = [p \in Procs |-> 1]
  /\ clean = FALSE
  /\ snap = NoSnap
  /\ gone = {}
  /\ envCount = 0
  /\ invCount = 0

EnrollUnchanged ==
  UNCHANGED <<remote, entity, agg, hub, lock, pc, op, idx, clean, snap, gone,
              envCount, invCount>>

\* a deal of the AE is closed won in the current month
EnrollmentWon ==
  /\ \E kind \in {"regular", "easy"} :
       /\ last.won[last.now][kind] < MaxWon
       /\ last' = [last EXCEPT !.act = "won", !.outcome = "",
                               !.won[last.now][kind] = @ + 1]
  /\ EnrollUnchanged

\* the calendar month ends
MonthPasses ==
  /\ last.now < MaxMonth
  /\ last' = [last EXCEPT !.act = "month", !.outcome = "", !.now = @ + 1]
  /\ EnrollUnchanged

\* one call of updateEnrollmentTracker from the cycle
RefreshEnrollment ==
  /\ \E responseOk \in BOOLEAN :
       last' = [last EXCEPT
                  !.act = "refresh",
                  !.outcome = IF responseOk THEN "written" ELSE "failed",
                  !.sheet = updateEnrollmentTracker(last.sheet, last.won, last.now,
                                                    last.role, responseOk)]
  /\ EnrollUnchanged

NextEnroll == EnrollmentWon \/ MonthPasses \/ RefreshEnrollment

SpecEnroll == InitEnroll /\ [][NextEnroll]_vars

-----------------------------------------------------------------------------
(* Properties: the months the Enrollment Tracker keeps *)

\* the months that have a section on the tab
MonthsOn(sheet) ==
  {sheet[i].month : i \in {r \in 1..Len(sheet) : isEnrollmentsHeader(sheet[r])}}

\* C23: over every refresh of the Enrollment Tracker, a month that has a
\* section on the tab before the refresh and is older than last month is
\* still on the tab after it; so the month that was last month before a
\* rollover stays on the tab as history.
C23_HistoryKept ==
  [][last'.act = "refresh" =>
       \A m \in MonthsOn(last.sheet) :
         m < last'.now - 1 => m \in MonthsOn(last'.sheet)]_vars

\* a refresh after a rollover has just written the two fetched months
C23_RolloverWitness ==
  /\ last.act = "refresh" /\ last.outcome = "written"
  /\ last.now = 3
  /\ MonthsOn(last.sheet) = {2, 3}
  /\ last.won[1].regular > 0

-----------------------------------------------------------------------------
(* Self-provisioning: loadConfiguration and getOrCreatePersonSheet *)

MaxDirRows == 2       \* rows 2.. of the Salespeople Config tab
MaxSheets == 2        \* dashboards created for one person before the model stops

PersonAt == <<"Ann", "Bob", "Cid">>
NoSheet == [owner |-> "", n |-> 0]

\* the n-th dashboard that was created for a person
SheetOf(name, n) == [owner |-> name, n |-> n]

\* a row of the Salespeople Config tab: columns A, B and C
ConfigRows(i) ==
  [name : {"", PersonAt[i]}, email : {"", "mail"},
   sheetId : {NoSheet, SheetOf(PersonAt[i], 1)}]

\* .filter(row => row[0] && row[1]): Name and Email required
salespeopleOf(rows) == SelectSeq(rows, LAMBDA row : row.name # "" /\ row.email # "")

\* `const rowIndex = index + 2': the sheet row the ID is written to, given
\* the 1-based place of the person among the salespeople; as a place among
\* the data rows (which start at sheet row 2) that is the same number
rowIndexOf(index) == index

\* getOrCreatePersonSheet for the salespeople from place i on: a person
\* without a sheet ID gets a new dashboard, whose ID goes into column C of
\* the row rowIndex; the persons are those read when the cycle began
RECURSIVE ProvisionFrom(_, _, _, _)
ProvisionFrom(salespeople, i, rows, created) ==
  IF i > Len(salespeople) THEN [rows |-> rows, created |-> created]
  ELSE LET person == salespeople[i]
       IN IF person.sheetId = NoSheet
          THEN LET n == created[person.name] + 1
               IN ProvisionFrom(salespeople, i + 1,
                                [rows EXCEPT ![rowIndexOf(i)].sheetId =
                                               SheetOf(person.name, n)],
                                [created EXCEPT ![person.name] = n])
          ELSE ProvisionFrom(salespeople, i + 1, rows, created)

Persons == {PersonAt[i] : i \in 1..Len(PersonAt)}

InitProvision ==
  /\ \E n \in 1..MaxDirRows :
     \E rows \in [1..n -> UNION {ConfigRows(i) : i \in 1..n}] :
       /\ \A i \in 1..n : rows[i] \in ConfigRows(i)
       /\ \A i \in 1..n : rows[i].name = "" => rows[i].sheetId = NoSheet
       /\ last = [act |-> "init", rows |-> rows,
                  created |-> [p \in Persons |->
                                 IF \E i \in 1..n : rows[i].sheetId = SheetOf(p, 1)
                                 THEN 1 ELSE 0]]
  /\ remote = [d \in Deals |->
                 [owner |-> IF d = "101" THEN "ae1" ELSE "ae2",
                  name |-> "Acme", why |-> "price"]]
  /\ entity = InitialEntity
  /\ agg = InitialAgg
  /\ hub = EmptyDirectorTab
  /\ lock = NoHolder
  /\ pc = [p \in Procs |-> "idle"]
  /\ op = [p \in Procs |-> "cycle"]
  /\ idx = [p \in Procs |-> 1]
  /\ clean = FALSE
  /\ snap = NoSnap
  /\ gone = {}
  /\ envCount = 0
  /\ invCount = 0

\* steps 1 and 2 of a cycle, as far as the dashboards are concerned
ProvisionCycle ==
  /\ \A p \in Persons : last.created[p] < MaxSheets
  /\ LET r == ProvisionFrom(salespeopleOf(last.rows), 1, last.rows, last.created)
     IN last' = [act |-> "cycle", rows |-> r.rows, created |-> r.created]
  /\ UNCHANGED <<remote, entity, agg, hub, lock, pc, op, idx, clean, snap, gone,
                 envCount, invCount>>

\* somebody fills in a missing name or address of a row
CompleteRow ==
  /\ \E i \in 1..Len(last.rows) : \E col \in {"name", "email"} :
       /\ last.rows[i][col] = ""
       /\ last' = [last EXCEPT !.act = "edit",
                               !.rows[i][col] = IF col = "name" THEN PersonAt[i]
                                                ELSE "mail"]
  /\ UNCHANGED <<remote, entity, agg, hub, lock, pc, op, idx, clean, snap, gone,
                 envCount, invCount>>

NextProvision == ProvisionCycle \/ CompleteRow

SpecProvision == InitProvision /\ [][NextProvision]_vars

-----------------------------------------------------------------------------
(* Properties: one dashboard per owner *)

\* the rows of the persons a cycle works on that have no sheet ID
Unprovisioned(rows) ==
  {i \in 1..Len(rows) :
     rows[i].name # "" /\ rows[i].email # "" /\ rows[i].sheetId = NoSheet}

\* the cycle created one dashboard for the person of row i and wrote its ID
\* into row i
ProvisionedInPlace(i) ==
  LET name == last.rows[i].name
  IN /\ last'.created[name] = last.created[name] + 1
     /\ last'.rows[i].sheetId = SheetOf(name, last'.created[name])

\* C24: a cycle creates one dashboard for every owner whose directory row
\* has no sheet ID and writes the ID into that owner's row, and no owner
\* ever has a second dashboard created.
C24_ProvisionedOnce ==
  [][last'.act = "cycle" =>
       /\ \A i \in Unprovisioned(last.rows) : ProvisionedInPlace(i)
       /\ \A p \in Persons : last'.created[p] <= 1]_vars

\* every row of the tab has a name and an address
Dense(rows) == \A i \in 1..Len(rows) : rows[i].name # "" /\ rows[i].email # ""

\* the first part for a directory without incomplete rows
C24_DenseDirectory ==
  [][(last'.act = "cycle" /\ Dense(last.rows)) =>
       \A i \in Unprovisioned(last.rows) : ProvisionedInPlace(i)]_vars

\* a cycle has created a second dashboard for a person
C24_SecondSheetWitness ==
  /\ last.act = "cycle"
  /\ \E p \in Persons : last.created[p] = 2

-----------------------------------------------------------------------------
(* Properties: a failed fetch and the store *)

\* C26: a refresh whose fetch got a non-success response leaves the AE tab
\* of that owner as it was: the same rows, notes and colours.
C26_FailedFetchKeepsStore ==
  [][(last'.act = "entity" /\ last'.outcome = "fetch failed")
       => entity'[last'.unit] = entity[last'.unit]]_vars

\* a refresh whose fetch failed has replaced deal rows by the message
C26_OverwrittenWitness ==
  /\ last.act = "entity" /\ last.outcome = "fetch failed"
  /\ entity[last.unit] = Placeholder
  /\ \E d \in Deals : remote[d].owner = last.unit

-----------------------------------------------------------------------------
(* Properties: notes up with cleared notes *)

\* C28: when a notes-up propagation has completed, every Record ID that
\* has a row in an owner's entity store and in the aggregate store shows in
\* the aggregate store the note it shows in the entity store, an empty
\* note included.
C28_NotesUpEqual ==
  NotesUpDone =>
    \A o \in Owners : \A id \in RowIds(entity[o]) \cap RowIds(agg) \cap Deals :
      NotesShown(agg, id) = NotesShown(entity[o], id)

\* the quick pull has run to its end and the aggregate store still shows a
\* note that its owner had cleared before
C28_StaleNoteWitness ==
  /\ last.act = "pull" /\ last.outcome = "done"
  /\ \E o \in Owners : \E id \in RowIds(entity[o]) \cap RowIds(agg) \cap Deals :
       /\ NotesShown(entity[o], id) = ""
       /\ NotesShown(agg, id) = "call back"

\* the same for the rebuild of the full cycle alone, which writes every
\* note cell anew
C28_RebuildOnly ==
  last.act = "directors" =>
    \A o \in Owners : \A id \in RowIds(entity[o]) \cap RowIds(agg) \cap Deals :
      NotesShown(agg, id) = NotesShown(entity[o], id)

-----------------------------------------------------------------------------
(* Properties: the director's colours and the cap *)

\* the row of id in the director tab carries the director's colour
ShowsDirectorColour(id) ==
  \A c \in HighlightColumns : agg.rows[LastRowOf(agg, id)].colors[c] = Yellow

\* C29: a deal whose row the director has coloured and that has been in
\* the fetch results of every rebuild since carries that colour whenever
\* it has a row in the director tab, also when a rebuild in between left
\* it out because of the cap.
C29_ColoursSurviveCap ==
  \A id \in last.kept : id \in RowIds(agg) => ShowsDirectorColour(id)

\* a rebuild has left out a coloured deal that was in its fetch results
C29_CutWitness ==
  /\ last.act = "aggregate" /\ last.outcome = "written"
  /\ \E id \in last.kept : id \notin RowIds(agg)

\* the same where the team's deals are within the cap
C29_WithinCap ==
  last.cap = MAX_DIRECTOR_DEALS => C29_ColoursSurviveCap

\* a rebuild under the large cap has restored the colour of a deal
C29_WithinCapWitness ==
  /\ last.act = "aggregate" /\ last.outcome = "written"
  /\ last.cap = MAX_DIRECTOR_DEALS
  /\ \E id \in last.kept : id \in RowIds(agg) /\ ShowsDirectorColour(id)

-----------------------------------------------------------------------------
(* Properties: the aggregate store and the entity stores of its group *)

\* the Deal IDs with a row in the director tab
AggregateIds == RowIds(agg) \cap Deals

\* the Deal IDs with a row in the tab of an AE of the director's team
GroupEntityIds ==
  UNION {RowIds(entity[o]) \cap Deals : o \in {a \in Owners : TeamOf[a] = DirectorTeam}}

\* a full cycle is about to return that met no failure, no edit and no
\* change of the CRM since it took the lock
CleanCycleDone ==
  \E p \in Procs : pc[p] = "return" /\ op[p] = "cycle" /\ clean

====
